---------------------------- MODULE Spec2Model ----------------------------
(***************************************************************************)
(* A model of the news application's three pieces of logic:               *)
(*   - the article-detail view counter  (news/views.py)                   *)
(*   - the cache-population path        (news/views.py,                   *)
(*                                       news/context_processors.py)      *)
(*   - the image pipeline               (news/utils.py)                   *)
(* Each piece has its own specification (SpecViews, SpecCache, SpecImage) *)
(* over the one set of variables; the variables of the other pieces stay  *)
(* at their initial values.                                                *)
(*                                                                         *)
(* An image is its mode, its size, its EXIF orientation and one pixel:     *)
(* every pixel operation of the pipeline up to Image.save acts on each     *)
(* pixel alone, so one pixel stands for all.  The image a call produces is *)
(* the one handed to Image.save; the lossy JPEG encoding is not modelled.  *)
(***************************************************************************)
EXTENDS Integers, Sequences, FiniteSets, TLC

VARIABLES
    now,        \* timezone.now() / time.time(), in seconds
    articles,   \* the news_article table: id -> row
    views0,     \* history: views_count of every row at the start
    viewers,    \* the article-detail requests in flight
    cache,      \* django.core.cache.cache: key -> entry (value, expiry)
    page,       \* the cache_page entry of the homepage URL
    lastSet,    \* history: per key, the latest cache.set call
    workers,    \* the page requests in flight
    image_field,  \* the ImageField file handed to the image functions
    size,       \* (max_width, max_height) of optimize_image, size of create_thumbnail
    fault,      \* the stage at which the library or the storage fails, if any
    optimized,  \* what optimize_image(image_field, *size) came to
    thumbnail,  \* what create_thumbnail(image_field, size) came to
    increments, \* history: per detail request, the stored counter at its UPDATE
    media,      \* the image columns of news_article: id -> the two ImageFields
    profiles,   \* news_author.profile_image: id -> ImageField
    editors,    \* the admin change requests of ArticleAdmin in flight
    command,    \* the run of manage.py optimize_images
    upload,     \* a call of get_upload_path: its arguments and its result
    site_settings,  \* the news_sitesettings table: the primary keys of its rows
    site_requests,  \* the admin requests on SiteSettings in flight
    flags,      \* is_featured and is_breaking of news_article: id -> the two
    listed,     \* per cache entry, the articles of the lists it holds
    response    \* history: the latest public response, and the rows it shows

None == "None"

\* A NULL published_at (models.py: blank=True, null=True); real times are >= 0.
NULL == -1

(***************************************************************************)
(* Bounds of the model.                                                    *)
(***************************************************************************)
NumViewers == 3
MaxInitViews == 1
TickStep == 200
MaxRequestTicks == 1
MaxTime == 1200

(***************************************************************************)
(* news/models.py: Article                                                 *)
(***************************************************************************)
Articles == {"a1", "a2"}
Slugs == Articles \cup {"missing"}
STATUS_CHOICES == {"draft", "published", "archived"}
Viewers == 1..NumViewers

\* Article.objects.filter(status='published', published_at__lte=timezone.now())
\* A NULL published_at never satisfies __lte.
PublishedFilter(row, t) ==
    /\ row.status = "published"
    /\ row.published_at # NULL
    /\ row.published_at <= t

\* ArticleDetailView.get_queryset() narrowed by slug (the slug is unique and
\* identifies the row): the ids the lookup can return.
DetailLookup(tbl, slug, t) ==
    {a \in DOMAIN tbl : a = slug /\ PublishedFilter(tbl[a], t)}

\* A plausible bug: the increment as a read-modify-write of the loaded object.
IncrementViewsFromObject(tbl, obj) ==
    [tbl EXCEPT ![obj.id].views_count = obj.views_count + 1]

\* A plausible bug: the UPDATE without its filter(id=obj.id).
IncrementViewsOfAll(tbl, obj) ==
    [a \in DOMAIN tbl |-> [tbl[a] EXCEPT !.views_count = @ + 1]]

\* Article.objects.filter(id=obj.id).update(views_count=F('views_count') + 1):
\* one UPDATE statement, evaluated by the database on the stored value.
IncrementViews(tbl, obj) ==
    [tbl EXCEPT ![obj.id].views_count = @ + 1]

\* obj.refresh_from_db(fields=['views_count'])
RefreshViews(tbl, obj) ==
    [obj EXCEPT !.views_count = tbl[obj.id].views_count]

cacheVars == <<cache, page, lastSet, workers>>
viewVars == <<articles, views0, viewers, increments>>
saveVars == <<media, profiles, editors, command>>
settingsVars == <<site_settings, site_requests>>
publicVars == <<flags, listed, response>>
otherVars == <<upload, settingsVars, publicVars>>
restVars == <<saveVars, otherVars>>
imageVars == <<image_field, size, fault, optimized, thumbnail>>

\* An image in memory (PIL.Image.Image); px.c is one colour channel of the
\* pixel (the palette entry's, in mode P) and px.a its alpha, 255 where the
\* mode has none.
NoImage == [mode |-> "RGB", width |-> 0, height |-> 0, orientation |-> 1,
            px |-> [c |-> 0, a |-> 255]]

\* The outcome of a call: "None" and "pair" are its two returns, "raised" an
\* exception that leaves the function (stage: where it came from).
NotCalled == [kind |-> "not_called", name |-> <<>>, image |-> NoImage, stage |-> ""]

\* No image is being processed.
ImageIdle ==
    /\ image_field = [name |-> <<>>, file |-> [decodable |-> FALSE] @@ NoImage]
    /\ size = <<300, 200>>
    /\ fault = "none"
    /\ optimized = NotCalled
    /\ thumbnail = NotCalled

(***************************************************************************)
(* news/models.py: the image columns.  An ImageField value is the stored   *)
(* name and the file under it; the empty value has the empty name, which   *)
(* is what the column holds for an article without image ('', not NULL).   *)
(***************************************************************************)
Authors == {"u1", "u2"}
Editors == {"e1"}

\* committed: the file is in the storage under its name (an upload is not,
\* until the save of its row).
EmptyField ==
    [name |-> <<>>, file |-> [decodable |-> FALSE] @@ NoImage, committed |-> TRUE]

NoMedia == [featured_image |-> EmptyField, featured_image_thumbnail |-> EmptyField]

\* An Article instance in memory, as loaded from its row.
NoInstance ==
    [id |-> None, status |-> "draft", published_at |-> NULL, views_count |-> 0,
     featured_image |-> EmptyField, featured_image_thumbnail |-> EmptyField]

\* initial: the instance as the request loaded it, obj: as the form left it.
IdleEditor == [pc |-> "idle", obj |-> NoInstance, initial |-> NoInstance]

\* made: history, the <<column, id>> the run has written.
IdleCommand ==
    [pc |-> "idle", force |-> FALSE, articles |-> <<>>, authors |-> <<>>,
     optimized_count |-> 0, thumbnail_count |-> 0, made |-> {},
     article |-> NoInstance]

\* No admin edit and no command run is under way.
SaveIdle ==
    /\ media = [a \in Articles |-> NoMedia]
    /\ profiles = [u \in Authors |-> EmptyField]
    /\ editors = [e \in Editors |-> IdleEditor]
    /\ command = IdleCommand

\* No call of get_upload_path has been made.
IdleUpload == [pc |-> "idle", class_name |-> <<>>, filename |-> <<>>, path |-> <<>>]

SettingsAdmins == {"s1", "s2", "s3"}

\* No row of SiteSettings, and no admin request on it.
SettingsIdle ==
    /\ site_settings = {}
    /\ site_requests = [s \in SettingsAdmins |-> "idle"]

\* The cache entries: the two keys of cache.set, and the page of cache_page.
CacheNames == {"homepage_data", "global_context_data", "page"}

NoResponse == [view |-> "none", at |-> NULL, rows |-> {}]

\* No cached list, and no public response yet.
PublicIdle ==
    /\ flags = [a \in {"a1", "a2"} |-> [is_featured |-> FALSE, is_breaking |-> FALSE]]
    /\ listed = [c \in CacheNames |-> {}]
    /\ response = NoResponse

OtherIdle == upload = IdleUpload /\ SettingsIdle /\ PublicIdle

RestIdle == SaveIdle /\ OtherIdle

NoObject == [id |-> None, views_count |-> 0]

IdleViewer == [pc |-> "idle", slug |-> None, obj |-> NoObject]

\* What is recorded of a detail request's UPDATE: the stored counter it
\* found, and whether a later UPDATE of the whole row has overwritten it.
NoIncrement == [before |-> NULL, overwritten |-> FALSE]

(***************************************************************************)
(* ArticleDetailView.get_object, one database statement per step.          *)
(***************************************************************************)
\* obj = super().get_object(queryset): SELECT through get_queryset();
\* Http404 when no row matches.
GetObjectFound(v) ==
    /\ viewers[v].pc = "idle"
    /\ \E slug \in Slugs :
         \E a \in DetailLookup(articles, slug, now) :
            viewers' = [viewers EXCEPT ![v] =
                [pc |-> "update", slug |-> slug,
                 obj |-> [id |-> a, views_count |-> articles[a].views_count]]]
    /\ UNCHANGED <<imageVars, restVars, now, articles, views0, increments, cacheVars>>

GetObjectNotFound(v) ==
    /\ viewers[v].pc = "idle"
    /\ \E slug \in Slugs :
         /\ DetailLookup(articles, slug, now) = {}
         /\ viewers' = [viewers EXCEPT ![v] =
                [pc |-> "http404", slug |-> slug, obj |-> NoObject]]
    /\ UNCHANGED <<imageVars, restVars, now, articles, views0, increments, cacheVars>>

\* Article.objects.filter(id=obj.id).update(views_count=F('views_count') + 1)
UpdateViews(v) ==
    /\ viewers[v].pc = "update"
    /\ articles' = IncrementViews(articles, viewers[v].obj)
    /\ viewers' = [viewers EXCEPT ![v].pc = "refresh"]
    /\ increments' = [increments EXCEPT ![v] =
            [before |-> articles[viewers[v].obj.id].views_count,
             overwritten |-> FALSE]]
    /\ UNCHANGED <<imageVars, restVars, now, views0, cacheVars>>

\* obj.refresh_from_db(fields=['views_count']); return obj
RefreshObject(v) ==
    /\ viewers[v].pc = "refresh"
    /\ viewers' = [viewers EXCEPT ![v].pc = "done",
                                  ![v].obj = RefreshViews(articles, @)]
    /\ UNCHANGED <<imageVars, restVars, now, articles, views0, increments, cacheVars>>

(***************************************************************************)
(* The cache: django.core.cache.cache as used by HomeView.get_context_data *)
(* (news/views.py) and global_context (news/context_processors.py), and    *)
(* the cache_page decorator around HomeView.                               *)
(*                                                                         *)
(* A cached value is the dict of querysets.  Querysets are lazy: they are  *)
(* evaluated when cache.set pickles them, so the rows a value carries are  *)
(* those of the moment of the cache.set call.  A value is identified by    *)
(* that moment and by the request that made it.                            *)
(***************************************************************************)
Workers == {"w1", "w2"}
Keys == {"homepage_data", "global_context_data"}

\* A value is the moment its querysets were evaluated; None is NULL.
NoValue == NULL
NoEntry == [value |-> NoValue, exp |-> NULL]
NoPage == [home |-> NoValue, glob |-> NoValue, at |-> NULL, exp |-> NULL]

\* cache.set(cache_key, cached_data, 60 * 10)          views.py:72
HomeTimeoutDoubled == 60 * 20
HomeTimeout == 60 * 10
\* cache.set(cache_key, context_data, 60 * 15)         context_processors.py:36
GlobalTimeout == 60 * 15
\* cache_page(60 * 5)                                  views.py:16
PageTimeout == 60 * 5

Timeout(k) == IF k = "homepage_data" THEN HomeTimeout ELSE GlobalTimeout

\* A plausible bug: a get that returns an entry whatever its expiry.
CacheGetIgnoringExpiry(c, k, t) == c[k].value

\* cache.get(key): the stored value while its expiry lies ahead, else None.
CacheGet(c, k, t) == IF c[k].exp # NULL /\ c[k].exp > t THEN c[k].value ELSE NoValue

\* A plausible bug: cache.add, which stores only when no live entry exists.
CacheAdd(c, k, v, timeout, t) ==
    IF c[k].exp # NULL /\ c[k].exp > t THEN c
    ELSE [c EXCEPT ![k] = [value |-> v, exp |-> t + timeout]]

\* cache.set(key, value, timeout): overwrites, expiry = now + timeout.
CacheSet(c, k, v, timeout, t) ==
    [c EXCEPT ![k] = [value |-> v, exp |-> t + timeout]]

\* `if cached_data:` -- the dict always has its keys, so it is truthy exactly
\* when cache.get returned something.
Truthy(v) == v # NoValue

IdleWorker ==
    [kind |-> None, pc |-> "idle", pageHit |-> FALSE, elapsed |-> 0,
     val |-> [k \in Keys |-> NoValue],
     got |-> [k \in Keys |-> "no"],
     didSet |-> [k \in Keys |-> FALSE]]

CacheIdle ==
    /\ cache = [k \in Keys |-> NoEntry]
    /\ page = NoPage
    /\ lastSet = [k \in Keys |-> NoValue]
    /\ workers = [w \in Workers |-> IdleWorker]

\* cached_data = cache.get(cache_key); if cached_data: ... else: ...
\* as a step of request w on key k; hitpc and misspc are where it goes on.
GetStep(w, k, hitpc, misspc) ==
    LET v == CacheGet(cache, k, now)
    IN  IF Truthy(v)
        THEN workers' = [workers EXCEPT
                ![w].pc = hitpc, ![w].val[k] = v, ![w].got[k] = "hit"]
        ELSE workers' = [workers EXCEPT
                ![w].pc = misspc, ![w].got[k] = "miss"]

\* The miss branch: build the querysets, cache.set (which evaluates them),
\* and hand the same dict to the template context.
SetStep(w, k, nextpc) ==
    /\ cache' = CacheSet(cache, k, now, Timeout(k), now)
    /\ lastSet' = [lastSet EXCEPT ![k] = now]
    /\ workers' = [workers EXCEPT
            ![w].pc = nextpc, ![w].val[k] = now, ![w].didSet[k] = TRUE]

\* A request arrives: for the homepage (HomeView, behind cache_page) or for
\* any other page, whose template runs the global_context processor only.
StartRequest(w) ==
    /\ workers[w].pc \in {"idle", "done"}
    /\ \E kind \in {"home", "other"} :
         workers' = [workers EXCEPT ![w] =
            [IdleWorker EXCEPT !.kind = kind,
                               !.pc = IF kind = "home" THEN "page_get"
                                      ELSE "global_get"]]
    /\ UNCHANGED <<imageVars, restVars, now, viewVars, cache, page, lastSet>>

\* cache_page: the stored response is served while its expiry lies ahead.
PageGetHit(w) ==
    /\ workers[w].pc = "page_get"
    /\ page.exp # NULL /\ page.exp > now
    /\ workers' = [workers EXCEPT
            ![w].pc = "done", ![w].pageHit = TRUE,
            ![w].val = [k \in Keys |-> IF k = "homepage_data" THEN page.home
                                       ELSE page.glob]]
    /\ UNCHANGED <<imageVars, restVars, now, viewVars, cache, page, lastSet>>

PageGetMiss(w) ==
    /\ workers[w].pc = "page_get"
    /\ ~(page.exp # NULL /\ page.exp > now)
    /\ workers' = [workers EXCEPT ![w].pc = "home_get"]
    /\ UNCHANGED <<imageVars, restVars, now, viewVars, cache, page, lastSet>>

\* HomeView.get_context_data: cache.get('homepage_data')
HomeGet(w) ==
    /\ workers[w].pc = "home_get"
    /\ GetStep(w, "homepage_data", "global_get", "home_set")
    /\ UNCHANGED <<imageVars, restVars, now, viewVars, cache, page, lastSet>>

\* HomeView.get_context_data: the else branch
HomeSet(w) ==
    /\ workers[w].pc = "home_set"
    /\ SetStep(w, "homepage_data", "global_get")
    /\ UNCHANGED <<imageVars, restVars, now, viewVars, page>>

AfterGlobal(w) == IF workers[w].kind = "home" THEN "page_set" ELSE "done"

\* global_context: cache.get('global_context_data')
GlobalGet(w) ==
    /\ workers[w].pc = "global_get"
    /\ GetStep(w, "global_context_data", AfterGlobal(w), "global_set")
    /\ UNCHANGED <<imageVars, restVars, now, viewVars, cache, page, lastSet>>

\* global_context: the miss path
GlobalSet(w) ==
    /\ workers[w].pc = "global_set"
    /\ SetStep(w, "global_context_data", AfterGlobal(w))
    /\ UNCHANGED <<imageVars, restVars, now, viewVars, page>>

\* cache_page: the rendered response, which carries the data of both keys,
\* is stored for PageTimeout seconds.
PageSet(w) ==
    /\ workers[w].pc = "page_set"
    /\ page' = [home |-> workers[w].val["homepage_data"],
                glob |-> workers[w].val["global_context_data"],
                at |-> now, exp |-> now + PageTimeout]
    /\ workers' = [workers EXCEPT ![w].pc = "done"]
    /\ UNCHANGED <<imageVars, restVars, now, viewVars, cache, lastSet>>

InFlight(w) == workers[w].pc \notin {"idle", "done"}

\* Time passes, between any two steps of any requests; the hosting server
\* ends a request that lasts longer than MaxRequestTicks ticks.
Tick ==
    /\ now + TickStep <= MaxTime
    /\ \A w \in Workers : InFlight(w) => workers[w].elapsed < MaxRequestTicks
    /\ now' = now + TickStep
    /\ workers' = [w \in Workers |->
            IF InFlight(w) THEN [workers[w] EXCEPT !.elapsed = @ + 1]
            ELSE workers[w]]
    /\ UNCHANGED <<imageVars, restVars, viewVars, cache, page, lastSet>>

InitCache ==
    /\ now = 0
    /\ articles = [a \in Articles |->
            [status |-> "published", published_at |-> 0, views_count |-> 0]]
    /\ views0 = [a \in Articles |-> 0]
    /\ viewers = [v \in Viewers |-> IdleViewer]
    /\ increments = [v \in Viewers |-> NoIncrement]
    /\ RestIdle
    /\ CacheIdle
    /\ ImageIdle

NextCache ==
    \/ Tick
    \/ \E w \in Workers :
        \/ StartRequest(w)
        \/ PageGetHit(w)
        \/ PageGetMiss(w)
        \/ HomeGet(w)
        \/ HomeSet(w)
        \/ GlobalGet(w)
        \/ GlobalSet(w)
        \/ PageSet(w)

(***************************************************************************)
(* Python float arithmetic (IEEE-754 binary64, round to nearest, ties to   *)
(* even) on the values news/utils.py computes with: the quotient of two    *)
(* positive ints, the product of an int and such a quotient, min() and     *)
(* int().  A float is its 53-bit significand, held as four limbs of 5, 16, *)
(* 16 and 16 bits (most significant first), and the exponent e of its      *)
(* first bit: the value is (significand / 2^52) * 2^e.  The ints are below *)
(* 2^13, so no intermediate value leaves 32 bits.                          *)
(***************************************************************************)
Limb == 65536

RECURSIVE Pow2(_)
Pow2(n) == IF n = 0 THEN 1 ELSE 2 * Pow2(n - 1)

RECURSIVE BitLength(_)
BitLength(n) == IF n = 0 THEN 0 ELSE 1 + BitLength(n \div 2)

\* The significand plus one unit in the last place; a carry out of the top
\* gives 1.000... * 2^(e+1).
FloatNextUp(m, e) ==
    LET c4 == m[4] + 1
        l4 == c4 % Limb
        c3 == m[3] + c4 \div Limb
        l3 == c3 % Limb
        c2 == m[2] + c3 \div Limb
        l2 == c2 % Limb
        l1 == m[1] + c2 \div Limb
    IN  IF l1 = 32 THEN [m |-> <<16, 0, 0, 0>>, e |-> e + 1]
        ELSE [m |-> <<l1, l2, l3, l4>>, e |-> e]

RoundFloat(m, e, up) == IF up THEN FloatNextUp(m, e) ELSE [m |-> m, e |-> e]

\* The exponent of a / b: the k with 2^k <= a / b < 2^(k+1).
RECURSIVE Exponent(_, _)
Exponent(a, b) ==
    IF a < b THEN Exponent(2 * a, b) - 1
    ELSE IF a >= 2 * b THEN Exponent(a, 2 * b) + 1
    ELSE 0

\* a / b for ints a, b > 0 (Python 3 true division), correctly rounded:
\* long division, 5 then 16, 16 and 16 bits of quotient, and the remainder
\* decides the rounding.
FloatDiv(a, b) ==
    LET e == Exponent(a, b)
        aa == IF e < 0 THEN a * Pow2(-e) ELSE a
        bb == IF e > 0 THEN b * Pow2(e) ELSE b
        q1 == (aa * 16) \div bb
        r1 == (aa * 16) % bb
        q2 == (r1 * Limb) \div bb
        r2 == (r1 * Limb) % bb
        q3 == (r2 * Limb) \div bb
        r3 == (r2 * Limb) % bb
        q4 == (r3 * Limb) \div bb
        r4 == (r3 * Limb) % bb
        up == 2 * r4 > bb \/ (2 * r4 = bb /\ q4 % 2 = 1)
    IN  RoundFloat(<<q1, q2, q3, q4>>, e, up)

\* c * f for an int c >= 1 and a float f (the int converts exactly): the
\* exact product, shifted back to 53 bits and rounded once.
FloatMulInt(c, f) ==
    LET t4 == c * f.m[4]
        t3 == c * f.m[3] + t4 \div Limb
        t2 == c * f.m[2] + t3 \div Limb
        top == c * f.m[1] + t2 \div Limb
        p2 == t2 % Limb
        p3 == t3 % Limb
        p4 == t4 % Limb
        d == BitLength(top) - 5
        low == Pow2(d)
        high == Limb \div low
        m == <<top \div low,
               (top % low) * high + p2 \div low,
               (p2 % low) * high + p3 \div low,
               (p3 % low) * high + p4 \div low>>
        dropped == p4 % low
        up == d > 0 /\ (2 * dropped > low \/ (2 * dropped = low /\ m[4] % 2 = 1))
    IN  RoundFloat(m, f.e + d, up)

\* f < g, both positive
FloatLess(f, g) ==
    \/ f.e < g.e
    \/ /\ f.e = g.e
       /\ \E i \in 1..4 : f.m[i] < g.m[i] /\ \A j \in 1..(i - 1) : f.m[j] = g.m[j]

\* min(f, g): Python keeps the first argument unless the second is smaller.
FloatMin(f, g) == IF FloatLess(g, f) THEN g ELSE f

\* The first e + 1 bits of the significand and the bit after them,
\* for 0 <= e <= 19.
FloatHead(f, bits) ==
    IF bits <= 5 THEN f.m[1] \div Pow2(5 - bits)
    ELSE (f.m[1] * Limb + f.m[2]) \div Pow2(21 - bits)

\* A plausible bug: round() where the code has int().
FloatRound(f) ==
    IF f.e < -1 THEN 0
    ELSE IF f.e = -1 THEN 1
    ELSE (FloatHead(f, f.e + 2) + 1) \div 2

\* int(f): truncation toward zero, for a positive f below 2^20.
FloatToInt(f) == IF f.e < 0 THEN 0 ELSE FloatHead(f, f.e + 1)

(***************************************************************************)
(* news/utils.py: the image pipeline.  A stage takes and gives a step: the *)
(* image so far, and the stage that raised, if one has ("" if none); a     *)
(* stage after a raise does nothing, as the statements of a try block      *)
(* after the one that raises.                                              *)
(***************************************************************************)
White == 255

Modes == {"RGB", "L", "RGBA", "LA", "P", "F"}

Ok(image) == [raised |-> "", image |-> image]

Raise(stage, image) == [raised |-> stage, image |-> image]

\* bool(image_field): a FieldFile is true iff it has a name.
FieldBool(field) == field.name # <<>>

\* Image.open(image_field): raises on a file that is no image, or that the
\* storage cannot read.
Open(field, flt) ==
    IF flt = "open" \/ ~field.file.decodable
    THEN Raise("open", NoImage)
    ELSE Ok([mode |-> field.file.mode, width |-> field.file.width,
             height |-> field.file.height,
             orientation |-> field.file.orientation, px |-> field.file.px])

\* The 8-bit blend of Pillow's paste with a mask:
\* (in1 * (255 - mask) + in2 * mask) / 255, rounded.
Blend8(mask, in1, in2) ==
    LET tmp == in1 * (255 - mask) + in2 * mask + 128
    IN  ((tmp \div 256) + tmp) \div 256

\* background.paste(image, mask=...): with a mask, each pixel is blended by
\* it; with mask=None the pixels of image replace those of background and
\* an alpha band of image is dropped.
Paste(background, image, mask) ==
    [background EXCEPT !.px.c =
        IF mask = NULL THEN image.px.c ELSE Blend8(mask, @, image.px.c)]

\* image.convert('RGBA') of a P image: each pixel becomes its palette
\* entry, with the alpha of the palette's transparency.
ConvertRGBA(image) == [image EXCEPT !.mode = "RGBA"]

\* Lines 20-25 and 72-77: an RGBA, LA or P image is pasted on a new white RGB
\* image of its size, which has no EXIF data; the mask is the last band
\* only if the mode (after the conversion of P) is RGBA.
Flatten(step, flt) ==
    IF step.raised # "" \/ step.image.mode \notin {"RGBA", "LA", "P"} THEN step
    ELSE IF flt = "convert" THEN Raise("convert", step.image)
    ELSE
        LET background == [mode |-> "RGB", width |-> step.image.width,
                           height |-> step.image.height, orientation |-> 1,
                           px |-> [c |-> White, a |-> 255]]
            image == IF step.image.mode = "P" THEN ConvertRGBA(step.image)
                     ELSE step.image
            mask == IF image.mode = "RGBA" THEN image.px.a ELSE NULL
        IN  Ok(Paste(background, image, mask))

\* ImageOps.exif_transpose(image): orientations 5 to 8 turn the image by a
\* quarter, which swaps width and height; the result carries no orientation.
ExifTranspose(step, flt) ==
    IF step.raised # "" THEN step
    ELSE IF flt = "transpose" THEN Raise("transpose", step.image)
    ELSE IF step.image.orientation \in 5..8
         THEN Ok([step.image EXCEPT !.width = step.image.height,
                                    !.height = step.image.width,
                                    !.orientation = 1])
         ELSE Ok([step.image EXCEPT !.orientation = 1])

\* A plausible bug: resizing every image.
AlwaysResize(width, height, max_width, max_height) == TRUE

\* Line 32
NeedsResize(width, height, max_width, max_height) ==
    width > max_width \/ height > max_height

\* A plausible bug: max() where the code has min().
ScaleFactorMax(width, height, max_width, max_height) ==
    LET byWidth == FloatDiv(max_width, width)
        byHeight == FloatDiv(max_height, height)
    IN  IF FloatLess(byWidth, byHeight) THEN byHeight ELSE byWidth

\* Line 34
ScaleFactor(width, height, max_width, max_height) ==
    FloatMin(FloatDiv(max_width, width), FloatDiv(max_height, height))

\* Lines 35-36: (new_width, new_height)
NewSize(width, height, max_width, max_height) ==
    LET scale_factor == ScaleFactor(width, height, max_width, max_height)
    IN  <<FloatToInt(FloatMulInt(width, scale_factor)),
          FloatToInt(FloatMulInt(height, scale_factor))>>

\* image.resize(new_size, LANCZOS): raises ValueError unless both sides are
\* at least 1; the pixels of a uniform image keep their value.
Resize(image, new_size, flt) ==
    IF flt = "resize" \/ new_size[1] < 1 \/ new_size[2] < 1
    THEN Raise("resize", image)
    ELSE Ok([image EXCEPT !.width = new_size[1], !.height = new_size[2]])

\* Lines 31-39
ResizeToFit(step, max_width, max_height, flt) ==
    IF step.raised # "" THEN step
    ELSE
        LET width == step.image.width
            height == step.image.height
        IN  IF NeedsResize(width, height, max_width, max_height)
            THEN Resize(step.image,
                        NewSize(width, height, max_width, max_height), flt)
            ELSE step

\* A plausible bug: the test of Image.thumbnail's aspect branch negated.
BoxIsWiderNegated(x, y, width, height) == x * height < width * y

\* Image.thumbnail: x / y >= aspect, where aspect = width / height.
BoxIsWider(x, y, width, height) == x * height >= width * y

Max(a, b) == IF a >= b THEN a ELSE b

\* math.ceil(num / den)
Ceil(num, den) == IF num % den = 0 THEN num \div den ELSE (num \div den) + 1

\* Image.thumbnail's round_aspect: of floor and ceil of a number, the one
\* with the smaller key, and at least 1.  keyFloor and keyCeil are the two
\* keys brought to one denominator.  The code computes the keys in floats:
\* where they are equal as exact numbers the rounding of the floats
\* decides, and both outcomes are kept.
RoundAspect(floor, ceil, keyFloor, keyCeil) ==
    LET nearest == IF floor = ceil \/ keyFloor < keyCeil THEN {floor}
                   ELSE IF keyCeil < keyFloor THEN {ceil}
                   ELSE {floor, ceil}
    IN  {Max(n, 1) : n \in nearest}

\* Image.thumbnail's preserve_aspect_ratio: the sizes the image (width x
\* height) can be given in the box (x, y); the image's own size where the
\* code returns without resizing.
ThumbnailSizes(width, height, x, y) ==
    IF x >= width /\ y >= height THEN {<<width, height>>}
    ELSE IF BoxIsWider(x, y, width, height)
    THEN
        \* x = round_aspect(y * aspect, key=lambda n: abs(aspect - n / y))
        LET f == (y * width) \div height
            c == Ceil(y * width, height)
        IN  {<<n, y>> : n \in RoundAspect(f, c, y * width - f * height,
                                          c * height - y * width)}
    ELSE
        \* y = round_aspect(x / aspect,
        \*                  key=lambda n: 0 if n == 0 else abs(aspect - x / n))
        LET f == (x * height) \div width
            c == Ceil(x * height, width)
        IN  {<<x, n>> : n \in RoundAspect(f, c,
                IF f = 0 THEN 0 ELSE (x * height - width * f) * c,
                IF f = 0 THEN 1 ELSE (width * c - x * height) * f)}

\* Line 83: image.thumbnail(size, LANCZOS), for each size it can come to.
Thumbnail(step, box, flt) ==
    IF step.raised # "" THEN {step}
    ELSE
        LET sizes == ThumbnailSizes(step.image.width, step.image.height,
                                    box[1], box[2])
        IN  {IF new_size = <<step.image.width, step.image.height>> THEN step
             ELSE Resize(step.image, new_size, flt) : new_size \in sizes}

\* The modes Pillow's JPEG encoder writes.
JpegWritable(mode) == mode \in {"1", "L", "RGB", "RGBX", "CMYK", "YCbCr"}

\* Lines 42-47 and 86-91: image.save(output, format='JPEG', ...)
Save(step, flt) ==
    IF step.raised # "" THEN step
    ELSE IF flt = "save" \/ ~JpegWritable(step.image.mode)
    THEN Raise("save", step.image)
    ELSE step

\* str.rfind of one character, counting from 1; 0 if it is not there.
RFind(p, ch) ==
    LET at == {i \in 1..Len(p) : p[i] = ch}
    IN  IF at = {} THEN 0 ELSE CHOOSE i \in at : \A j \in at : j <= i

\* os.path.splitext(p) on a path of characters: the extension starts at the
\* last dot of the last component, unless only dots come before it there.
Splitext(p) ==
    LET sepIndex == RFind(p, "/")
        dotIndex == RFind(p, ".")
    IN  IF /\ dotIndex > sepIndex
           /\ \E i \in (sepIndex + 1)..(dotIndex - 1) : p[i] # "."
        THEN <<SubSeq(p, 1, dotIndex - 1), SubSeq(p, dotIndex, Len(p))>>
        ELSE <<p, <<>>>>

OptimizedSuffix == <<"_", "o", "p", "t", "i", "m", "i", "z", "e", "d", ".", "j", "p", "g">>

ThumbSuffix == <<"_", "t", "h", "u", "m", "b", ".", "j", "p", "g">>

\* Lines 50-53 and 94-97: the name and the returned pair.
NamedPair(step, field, suffix, flt) ==
    IF step.raised # ""
    THEN [kind |-> "raised", name |-> <<>>, image |-> NoImage,
          stage |-> step.raised]
    ELSE IF flt = "name"
    THEN [kind |-> "raised", name |-> <<>>, image |-> NoImage,
          stage |-> "name"]
    ELSE [kind |-> "pair", name |-> Splitext(field.name)[1] \o suffix,
          image |-> step.image, stage |-> ""]

ReturnNone == [kind |-> "None", name |-> <<>>, image |-> NoImage, stage |-> ""]

\* A plausible bug: a handler for the errors of Image.open only.
ExceptOpenError(result) ==
    IF result.kind = "raised" /\ result.stage = "open" THEN ReturnNone
    ELSE result

\* Lines 55-57 and 99-101: except Exception: return None
ExceptException(result) ==
    IF result.kind = "raised" THEN ReturnNone ELSE result

\* optimize_image(image_field, max_width, max_height)
optimize_image(field, max_width, max_height, flt) ==
    IF ~FieldBool(field) THEN ReturnNone
    ELSE
        LET opened == Open(field, flt)
            flat == Flatten(opened, flt)
            upright == ExifTranspose(flat, flt)
            resized == ResizeToFit(upright, max_width, max_height, flt)
            saved == Save(resized, flt)
        IN  ExceptException(NamedPair(saved, field, OptimizedSuffix, flt))

\* create_thumbnail(image_field, size): the outcomes the call can have.
create_thumbnail(field, box, flt) ==
    IF ~FieldBool(field) THEN {ReturnNone}
    ELSE
        LET opened == Open(field, flt)
            flat == Flatten(opened, flt)
            upright == ExifTranspose(flat, flt)
        IN  {ExceptException(NamedPair(Save(thumb, flt), field, ThumbSuffix, flt)) :
                thumb \in Thumbnail(upright, box, flt)}

\* A caller runs optimize_image on the field.
OptimizeImage ==
    /\ optimized.kind = "not_called"
    /\ optimized' = optimize_image(image_field, size[1], size[2], fault)
    /\ UNCHANGED <<restVars, now, viewVars, cacheVars, image_field, size, fault, thumbnail>>

\* A caller runs create_thumbnail on the field.
CreateThumbnail ==
    /\ thumbnail.kind = "not_called"
    /\ thumbnail' \in create_thumbnail(image_field, size, fault)
    /\ UNCHANGED <<restVars, now, viewVars, cacheVars, image_field, size, fault, optimized>>

(***************************************************************************)
(* The inputs of the image pipeline.                                       *)
(***************************************************************************)
MaxSmallDim == 3

\* Widths and heights: the small ones, and sizes around the boxes' sides.
Dims == (1..MaxSmallDim) \cup {47, 49, 200, 201, 300, 301, 800, 801, 1078,
                               1200, 1201, 2191, 3000, 4000}

\* (max_width, max_height) and thumbnail sizes: the defaults of the two
\* functions, and small boxes.
Boxes == {<<1200, 800>>, <<300, 200>>, <<400, 400>>, <<1, 1>>, <<2, 3>>}

Orientations == {1, 3, 6}

Levels == {0, 100, 255}

Faults == {"none", "open", "convert", "transpose", "resize", "save", "name"}

Names == {<<>>,
          <<"a", ".", "p", "n", "g">>,
          <<"n", "/", "b", ".", "c", ".", "j", "p", "g">>,
          <<"d", ".", "x", "/", "f">>,
          <<".", "h">>}

ImageFile(decodable, mode, width, height, orientation, c, a) ==
    [decodable |-> decodable, mode |-> mode, width |-> width,
     height |-> height, orientation |-> orientation,
     px |-> [c |-> c, a |-> a]]

\* Opaque RGB files of every size and orientation, under every box.
SizedFields ==
    {[name |-> <<"a", ".", "p", "n", "g">>,
      file |-> ImageFile(TRUE, "RGB", w, h, o, 100, 255)] :
        w \in Dims, h \in Dims, o \in Orientations}

\* Files of every mode and pixel, in two sizes.
ModeFields ==
    {[name |-> <<"a", ".", "p", "n", "g">>,
      file |-> ImageFile(TRUE, m, wh[1], wh[2], o, c,
                         IF m \in {"RGBA", "LA", "P"} THEN a ELSE 255)] :
        m \in Modes, wh \in {<<4000, 3000>>, <<200, 300>>},
        o \in Orientations, c \in Levels, a \in Levels \cup {128}}

\* Files of every name, images or not.
NamedFields ==
    {[name |-> n,
      file |-> ImageFile(d, m, 4000, 3000, 1, 100, 255)] :
        n \in Names, d \in BOOLEAN, m \in {"RGB", "P"}}

InitImage ==
    /\ now = 0
    /\ articles = [a \in Articles |->
            [status |-> "published", published_at |-> 0, views_count |-> 0]]
    /\ views0 = [a \in Articles |-> 0]
    /\ viewers = [v \in Viewers |-> IdleViewer]
    /\ increments = [v \in Viewers |-> NoIncrement]
    /\ RestIdle
    /\ CacheIdle
    /\ \/ image_field \in SizedFields /\ size \in Boxes /\ fault = "none"
       \/ image_field \in ModeFields /\ size = <<1200, 800>> /\ fault = "none"
       \/ image_field \in NamedFields /\ size \in {<<1200, 800>>, <<300, 200>>}
          /\ fault \in Faults
    /\ optimized = NotCalled
    /\ thumbnail = NotCalled

NextImage ==
    \/ OptimizeImage
    \/ CreateThumbnail

(***************************************************************************)
(* news/utils.py: get_upload_path.  Text is a sequence of characters; now  *)
(* counts the seconds since 2024-01-01 00:00 in the server's time zone.    *)
(***************************************************************************)
Lowercase == {"a", "b", "c", "d", "e", "f", "g", "h", "i", "j", "k", "l", "m",
              "n", "o", "p", "q", "r", "s", "t", "u", "v", "w", "x", "y", "z"}

DigitChars == <<"0", "1", "2", "3", "4", "5", "6", "7", "8", "9">>

\* The upper-case letters that occur, and str.lower() of each.
Uppercase == [A |-> "a", I |-> "i", M |-> "m"]

\* c.isalnum(): letters and digits, of any script.
IsAlnum(c) ==
    \/ c \in Lowercase \cup DOMAIN Uppercase \cup {"é"}
    \/ \E i \in 1..10 : DigitChars[i] = c

\* str.lower()
Lower(text) ==
    [i \in 1..Len(text) |->
        IF text[i] \in DOMAIN Uppercase THEN Uppercase[text[i]] ELSE text[i]]

\* str.rstrip(): the text without its trailing whitespace.
RStrip(text) ==
    LET kept == {i \in 1..Len(text) : text[i] \notin {" ", "\t", "\n"}}
    IN  IF kept = {} THEN <<>>
        ELSE SubSeq(text, 1, CHOOSE i \in kept : \A j \in kept : j <= i)

\* str.replace(old, new) for single characters
Replace(text, old, new) ==
    [i \in 1..Len(text) |-> IF text[i] = old THEN new ELSE text[i]]

\* "".join(c for c in name if c.isalnum() or c in (' ', '-', '_'))
KeepClean(name) ==
    SelectSeq(name, LAMBDA c : IsAlnum(c) \/ c \in {" ", "-", "_"})

\* A plausible bug: the spaces replaced without the rstrip() before.
CleanNameUnstripped(name) == Replace(KeepClean(name), " ", "_")

\* Lines 120-121
CleanName(name) == Replace(RStrip(KeepClean(name)), " ", "_")

SecondsPerDay == 86400

IsLeap(year) == year % 4 = 0 /\ (year % 100 # 0 \/ year % 400 = 0)

DaysInMonth(year, month) ==
    IF month = 2 THEN (IF IsLeap(year) THEN 29 ELSE 28)
    ELSE IF month \in {4, 6, 9, 11} THEN 30 ELSE 31

\* The year and month of the day that is `days` days after the first of
\* `month` of `year`.
RECURSIVE DateFrom(_, _, _)
DateFrom(year, month, days) ==
    IF days < DaysInMonth(year, month) THEN [year |-> year, month |-> month]
    ELSE IF month = 12 THEN DateFrom(year + 1, 1, days - 31)
    ELSE DateFrom(year, month + 1, days - DaysInMonth(year, month))

\* timezone.now() as a date
DateOf(t) == DateFrom(2024, 1, t \div SecondsPerDay)

\* now.strftime('%Y'), for years of four digits
StrftimeYear(date) ==
    <<DigitChars[(date.year \div 1000) + 1],
      DigitChars[((date.year \div 100) % 10) + 1],
      DigitChars[((date.year \div 10) % 10) + 1],
      DigitChars[(date.year % 10) + 1]>>

\* now.strftime('%m'): two digits
StrftimeMonth(date) ==
    <<DigitChars[(date.month \div 10) + 1], DigitChars[(date.month % 10) + 1]>>

\* get_upload_path(instance, filename), for an instance of class class_name
\* at time t.
get_upload_path(class_name, filename, t) ==
    LET model_name == Lower(class_name)
        year == StrftimeYear(DateOf(t))
        month == StrftimeMonth(DateOf(t))
        name == Splitext(filename)[1]
        ext == Splitext(filename)[2]
        clean_name == CleanName(name)
    IN  model_name \o <<"s", "/">> \o year \o <<"/">> \o month \o <<"/">>
            \o clean_name \o ext

ArticleClass == <<"A", "r", "t", "i", "c", "l", "e">>

AuthorClass == <<"A", "u", "t", "h", "o", "r">>

(***************************************************************************)
(* news/models.py: Article.save, and what it calls.                        *)
(***************************************************************************)
\* create_thumbnail's default size
ThumbnailSize == <<300, 200>>

ThumbnailsDir == <<"t", "h", "u", "m", "b", "n", "a", "i", "l", "s", "/">>

\* The file that image.save(output, format='JPEG') and ContentFile make
\* of an image.
ContentFile(image) == [decodable |-> TRUE] @@ image

\* field.save(name, content, save=False): the content is stored under the
\* name the field's upload_to gives (the storage finds the name free).
FieldFileSave(stored_name, content) ==
    [name |-> stored_name, file |-> content, committed |-> TRUE]

\* FileField.pre_save: an upload is stored, under the name get_upload_path
\* gives it, when its row is saved.
PreSave(field, class_name, t) ==
    IF field.committed THEN field
    ELSE FieldFileSave(get_upload_path(class_name, field.name, t), field.file)

\* A plausible bug: the date set at every save of a published article.
SetPublishedAtAlways(obj, t) ==
    IF obj.status = "published" THEN [obj EXCEPT !.published_at = t] ELSE obj

\* Lines 113-115 (and admin.py lines 103-105): not None is the only
\* published_at that is false.
SetPublishedAt(obj, t) ==
    IF obj.status = "published" /\ obj.published_at = NULL
    THEN [obj EXCEPT !.published_at = t]
    ELSE obj

\* A plausible bug: the result used without the test of line 122.
AttachThumbnailUntested(obj, thumbnail_result) ==
    [obj EXCEPT !.featured_image_thumbnail =
        FieldFileSave(ThumbnailsDir \o thumbnail_result.name,
                      ContentFile(thumbnail_result.image))]

\* Lines 122-128
AttachThumbnail(obj, thumbnail_result) ==
    IF thumbnail_result.kind = "pair"
    THEN [obj EXCEPT !.featured_image_thumbnail =
            FieldFileSave(ThumbnailsDir \o thumbnail_result.name,
                          ContentFile(thumbnail_result.image))]
    ELSE obj

\* A plausible bug: the thumbnail made whenever there is a featured image.
NeedsThumbnailAlways(obj) == FieldBool(obj.featured_image)

\* Lines 118-120
NeedsThumbnail(obj) ==
    FieldBool(obj.featured_image) /\ ~FieldBool(obj.featured_image_thumbnail)

\* A plausible bug: the thumbnail attached after super().save().
HandleImageTooLate(obj, flt) == {obj}

\* Lines 117-128: the instances the image handling can leave.
HandleImage(obj, flt) ==
    IF NeedsThumbnail(obj)
    THEN {AttachThumbnail(obj, r) :
            r \in create_thumbnail(obj.featured_image, ThumbnailSize, flt)}
    ELSE {obj}

ArticleColumns ==
    {"status", "published_at", "views_count", "featured_image",
     "featured_image_thumbnail"}

\* Lines 109-128, and the pre_save of the file columns that are written:
\* the instances a save can write.
ArticleSaving(obj, update_fields, t, flt) ==
    {[with_image EXCEPT
        !.featured_image =
            IF "featured_image" \in update_fields
            THEN PreSave(@, ArticleClass, t) ELSE @] :
        with_image \in HandleImage(SetPublishedAt(obj, t), flt)}

\* A plausible bug: the UPDATE leaves views_count out.
WriteRowKeepingViews(tbl, obj, update_fields) ==
    [tbl EXCEPT ![obj.id] =
        [c \in DOMAIN @ |->
            IF c \in update_fields /\ c # "views_count" THEN obj[c] ELSE @[c]]]

\* super().save(): one UPDATE that writes the columns of update_fields
\* (all of them, when save is called without) from the instance.
WriteRow(tbl, obj, update_fields) ==
    [tbl EXCEPT ![obj.id] =
        [c \in DOMAIN @ |-> IF c \in update_fields THEN obj[c] ELSE @[c]]]

\* An instance of the row: Article.objects.get(...), or one element of an
\* evaluated queryset.
LoadArticle(a) ==
    [id |-> a, status |-> articles[a].status,
     published_at |-> articles[a].published_at,
     views_count |-> articles[a].views_count,
     featured_image |-> media[a].featured_image,
     featured_image_thumbnail |-> media[a].featured_image_thumbnail]

(***************************************************************************)
(* news/admin.py: ArticleAdmin.  A change request loads the row, sets the  *)
(* form's fields on the instance (status, published_at and featured_image  *)
(* are on the form; views_count is read-only and featured_image_thumbnail  *)
(* not editable) and calls save_model.                                     *)
(***************************************************************************)
MaxSaveTicks == 2

\* What the form can do to featured_image: leave it, clear it, or replace
\* it by an upload.
Uploads ==
    {[name |-> <<"n", "e", "w", ".", "p", "n", "g">>, committed |-> FALSE,
      file |-> ImageFile(TRUE, "RGB", 200, 300, 1, 100, 255)],
     [name |-> <<"b", "a", "d", ".", "j", "p", "g">>, committed |-> FALSE,
      file |-> ImageFile(FALSE, "RGB", 0, 0, 1, 0, 255)]}

FormImages(field) == {field, EmptyField} \cup Uploads

\* A date the form can be given: it lies ahead until the last tick.
ScheduledAt == MaxSaveTicks * TickStep

\* What the form can do to published_at: leave it, clear it, or set it.
FormDates(published_at) == {published_at, NULL, ScheduledAt}

\* The instances a posted form can make of a loaded one: one field of the
\* form is changed, or none.
FormChanges(obj) ==
    {[obj EXCEPT !.status = status] : status \in STATUS_CHOICES}
    \cup {[obj EXCEPT !.published_at = d] : d \in FormDates(obj.published_at)}
    \cup {[obj EXCEPT !.featured_image = f] : f \in FormImages(obj.featured_image)}

\* An editor posts the change form of an article.
ChangeFormPost(e) ==
    /\ editors[e].pc = "idle"
    /\ \E a \in Articles :
        \E obj \in FormChanges(LoadArticle(a)) :
            editors' = [editors EXCEPT ![e] =
                [pc |-> "save", obj |-> obj, initial |-> LoadArticle(a)]]
    /\ UNCHANGED <<imageVars, now, viewVars, cacheVars, otherVars, media, profiles, command>>

\* A full UPDATE of row a overwrites the counter of every detail request
\* that has incremented it and not yet read it back.
Overwrite(a, update_fields) ==
    [v \in Viewers |->
        IF /\ "views_count" \in update_fields
           /\ viewers[v].pc = "refresh" /\ viewers[v].obj.id = a
        THEN [increments[v] EXCEPT !.overwritten = TRUE]
        ELSE increments[v]]

\* ArticleAdmin.save_model, with the Article.save it ends in.
SaveModel(e) ==
    /\ editors[e].pc = "save"
    /\ \E obj \in ArticleSaving(SetPublishedAt(editors[e].obj, now),
                                 ArticleColumns, now, fault) :
        /\ articles' = WriteRow(articles, obj, ArticleColumns)
        /\ media' = WriteRow(media, obj, ArticleColumns)
        /\ increments' = Overwrite(obj.id, ArticleColumns)
    /\ editors' = [editors EXCEPT ![e].pc = "done"]
    /\ UNCHANGED <<imageVars, now, views0, viewers, cacheVars, otherVars, profiles, command>>

\* The response of a change request is sent; the editor can post again.
ChangeResponse(e) ==
    /\ editors[e].pc = "done"
    /\ editors' = [editors EXCEPT ![e] = IdleEditor]
    /\ UNCHANGED <<imageVars, now, viewVars, cacheVars, otherVars, media,
                   profiles, command>>

\* Time passes.
Clock ==
    /\ now < MaxSaveTicks * TickStep
    /\ now' = now + TickStep
    /\ UNCHANGED <<imageVars, viewVars, cacheVars, otherVars, saveVars>>

\* The storage stops giving the image files, or gives them again:
\* Image.open raises while it does not.
StorageFault ==
    /\ fault' \in {"none", "open"} \ {fault}
    /\ UNCHANGED <<image_field, size, optimized, thumbnail, now, viewVars,
                   cacheVars, otherVars, saveVars>>

(***************************************************************************)
(* news/management/commands/optimize_images.py: Command.handle, one step   *)
(* for each evaluation of a queryset and for each half of a loop body.     *)
(***************************************************************************)
\* The column is never NULL: an article without image holds ''.
IsNull(field) == FALSE

ArticleOrder == <<"a1", "a2">>

AuthorOrder == <<"u1", "u2">>

\* optimize_image's default bounds, and those line 71 passes.
OptimizeSize == <<1200, 800>>

ProfileSize == <<400, 400>>

\* Line 26, evaluated at line 29: the instances of the rows the filter keeps.
ArticlesWithImage ==
    LET kept == SelectSeq(ArticleOrder,
                          LAMBDA a : ~IsNull(media[a].featured_image))
    IN  [i \in 1..Len(kept) |-> LoadArticle(kept[i])]

\* Line 65, evaluated at line 68
AuthorsWithImage ==
    LET kept == SelectSeq(AuthorOrder, LAMBDA u : ~IsNull(profiles[u]))
    IN  [i \in 1..Len(kept) |-> [id |-> kept[i], profile_image |-> profiles[kept[i]]]]

\* A plausible bug: --force ignored.
WantsThumbnailUnforced(article, force) ==
    ~FieldBool(article.featured_image_thumbnail)

\* Line 32
WantsThumbnail(article, force) ==
    ~FieldBool(article.featured_image_thumbnail) \/ force

\* Lines 18-29
CommandStart ==
    /\ command.pc = "idle"
    /\ \E force \in BOOLEAN :
        command' = [command EXCEPT
            !.pc = IF ArticlesWithImage = <<>> THEN "load_authors" ELSE "thumbnail",
            !.force = force,
            !.articles = ArticlesWithImage]
    /\ UNCHANGED <<imageVars, now, viewVars, cacheVars, otherVars, media, profiles, editors>>

\* Lines 32-43 for the article at the head of the loop.
CommandThumbnail ==
    /\ command.pc = "thumbnail"
    /\ LET article == Head(command.articles)
       IN  \E r \in IF WantsThumbnail(article, command.force)
                    THEN create_thumbnail(article.featured_image, ThumbnailSize, fault)
                    ELSE {ReturnNone} :
            IF r.kind = "pair"
            THEN \E obj \in ArticleSaving(AttachThumbnail(article, r),
                                         {"featured_image_thumbnail"}, now, fault) :
                    /\ media' = WriteRow(media, obj, {"featured_image_thumbnail"})
                    /\ articles' = WriteRow(articles, obj, {"featured_image_thumbnail"})
                    /\ command' = [command EXCEPT
                            !.pc = "optimize",
                            !.articles = <<obj>> \o Tail(@),
                            !.thumbnail_count = @ + 1,
                            !.made = @ \cup {<<"featured_image_thumbnail", obj.id>>}]
            ELSE /\ command' = [command EXCEPT !.pc = "optimize"]
                 /\ UNCHANGED <<media, articles>>
    /\ UNCHANGED <<imageVars, now, views0, viewers, increments, cacheVars, otherVars,
                   profiles, editors>>

\* Lines 46-57 for the article at the head of the loop, and the loop's step.
CommandOptimize ==
    /\ command.pc = "optimize"
    /\ LET article == Head(command.articles)
           next == IF Tail(command.articles) = <<>> THEN "load_authors"
                   ELSE "thumbnail"
           r == IF command.force
                THEN optimize_image(article.featured_image, OptimizeSize[1],
                                    OptimizeSize[2], fault)
                ELSE ReturnNone
       IN  IF r.kind = "pair"
           THEN \E obj \in ArticleSaving(
                        [article EXCEPT !.featured_image =
                            FieldFileSave(get_upload_path(ArticleClass, r.name, now),
                                          ContentFile(r.image))],
                        {"featured_image"}, now, fault) :
                    /\ media' = WriteRow(media, obj, {"featured_image"})
                    /\ articles' = WriteRow(articles, obj, {"featured_image"})
                    /\ command' = [command EXCEPT
                            !.pc = next,
                            !.articles = Tail(@),
                            !.optimized_count = @ + 1,
                            !.made = @ \cup {<<"featured_image", obj.id>>},
                            !.article = obj]
           ELSE /\ command' = [command EXCEPT !.pc = next, !.articles = Tail(@),
                                              !.article = article]
                /\ UNCHANGED <<media, articles>>
    /\ UNCHANGED <<imageVars, now, views0, viewers, increments, cacheVars, otherVars,
                   profiles, editors>>

\* Lines 65-68
CommandLoadAuthors ==
    /\ command.pc = "load_authors"
    /\ command' = [command EXCEPT
            !.pc = IF AuthorsWithImage = <<>> THEN "done" ELSE "authors",
            !.authors = AuthorsWithImage]
    /\ UNCHANGED <<imageVars, now, viewVars, cacheVars, otherVars, media, profiles, editors>>

\* Lines 69-81 for the author at the head of the loop, and the loop's step.
CommandAuthor ==
    /\ command.pc = "authors"
    /\ LET author == Head(command.authors)
           next == IF Tail(command.authors) = <<>> THEN "done" ELSE "authors"
           r == IF command.force
                THEN optimize_image(author.profile_image, ProfileSize[1],
                                    ProfileSize[2], fault)
                ELSE ReturnNone
       IN  IF r.kind = "pair"
           THEN /\ profiles' = [profiles EXCEPT ![author.id] =
                        FieldFileSave(get_upload_path(AuthorClass, r.name, now),
                                      ContentFile(r.image))]
                /\ command' = [command EXCEPT
                        !.pc = next,
                        !.authors = Tail(@),
                        !.optimized_count = @ + 1,
                        !.made = @ \cup {<<"profile_image", author.id>>}]
           ELSE /\ command' = [command EXCEPT !.pc = next, !.authors = Tail(@)]
                /\ UNCHANGED profiles
    /\ UNCHANGED <<imageVars, now, viewVars, cacheVars, otherVars, media, editors>>

ArticleRows ==
    [status : STATUS_CHOICES, published_at : {NULL, 0, 1},
     views_count : 0..MaxInitViews]

\* A row as Article.save leaves it: a published row has published_at set.
SavedRow(row) == row.status = "published" => row.published_at # NULL

InitViews ==
    /\ now = 0
    /\ articles \in [Articles -> {r \in ArticleRows : SavedRow(r)}]
    /\ articles["a1"].status = "published" /\ articles["a1"].published_at = 0
    /\ views0 = [a \in Articles |-> articles[a].views_count]
    /\ viewers = [v \in Viewers |-> IdleViewer]
    /\ increments = [v \in Viewers |-> NoIncrement]
    /\ RestIdle
    /\ CacheIdle
    /\ ImageIdle

NextViews ==
    \E v \in Viewers :
        \/ GetObjectFound(v)
        \/ GetObjectNotFound(v)
        \/ UpdateViews(v)
        \/ RefreshObject(v)

(***************************************************************************)
(* The rows at the start of SpecSave: every row as an earlier save or      *)
(* command run can have left it.                                           *)
(***************************************************************************)
\* A stored featured image or profile image
StoredImage(filename, class_name, file) ==
    FieldFileSave(get_upload_path(class_name, filename, 0), file)

Photo ==
    StoredImage(<<"a", ".", "p", "n", "g">>, ArticleClass,
                ImageFile(TRUE, "RGB", 4000, 3000, 1, 100, 255))

\* A file that is no image
Broken ==
    StoredImage(<<"x", ".", "j", "p", "g">>, ArticleClass,
                ImageFile(FALSE, "RGB", 0, 0, 1, 0, 255))

\* An image that create_thumbnail can fit and optimize_image cannot
\* (its height scales to 0)
Narrow ==
    StoredImage(<<"l", ".", "p", "n", "g">>, ArticleClass,
                ImageFile(TRUE, "RGB", 4000, 1, 1, 100, 255))

\* A thumbnail made of an earlier featured image
OldThumbnail ==
    FieldFileSave(ThumbnailsDir \o <<"o", "_", "t", "h", "u", "m", "b", ".", "j", "p", "g">>,
                  ImageFile(TRUE, "RGB", 150, 100, 1, 0, 255))

Portrait ==
    StoredImage(<<"m", "e", ".", "p", "n", "g">>, AuthorClass,
                ImageFile(TRUE, "RGB", 800, 801, 1, 100, 255))

\* The states common to the start of SpecSave and SpecCommand.
InitRows ==
    /\ now = 0
    /\ views0 = [a \in Articles |-> articles[a].views_count]
    /\ viewers = [v \in Viewers |-> IdleViewer]
    /\ increments = [v \in Viewers |-> NoIncrement]
    /\ CacheIdle
    /\ ImageIdle
    /\ editors = [e \in Editors |-> IdleEditor]
    /\ command = IdleCommand
    /\ OtherIdle

PublishedRow == [status |-> "published", published_at |-> 0, views_count |-> 0]

InitSave ==
    /\ articles \in [Articles -> {r \in ArticleRows :
            SavedRow(r) /\ r.views_count = 0 /\ r.published_at \in {NULL, 0}}]
    /\ articles["a2"] = PublishedRow
    /\ media \in [Articles ->
            [featured_image : {EmptyField, Photo, Broken, Narrow},
             featured_image_thumbnail : {EmptyField, OldThumbnail}]]
    /\ media["a2"] = [featured_image |-> Photo, featured_image_thumbnail |-> EmptyField]
    /\ profiles = [u \in Authors |-> Portrait]
    /\ InitRows

\* The detail requests that run beside the saves.
SaveViewers == {1, 2}

NextSave ==
    \/ Clock
    \/ \E e \in Editors :
        \/ ChangeFormPost(e)
        \/ SaveModel(e)
    \/ \E v \in SaveViewers :
        \/ GetObjectFound(v)
        \/ UpdateViews(v)
        \/ RefreshObject(v)

\* The admin edits alone: one change request after the other, on rows
\* that start as drafts without image.
InitEdit ==
    /\ articles = [a \in Articles |->
            [status |-> "draft", published_at |-> NULL, views_count |-> 0]]
    /\ media = [a \in Articles |-> NoMedia]
    /\ profiles = [u \in Authors |-> Portrait]
    /\ InitRows

NextEdit ==
    \/ Clock
    \/ \E e \in Editors :
        \/ ChangeFormPost(e)
        \/ SaveModel(e)
        \/ ChangeResponse(e)

InitCommand ==
    /\ articles = [a \in Articles |-> PublishedRow]
    /\ media \in [Articles ->
            [featured_image : {EmptyField, Photo, Broken, Narrow},
             featured_image_thumbnail : {EmptyField, OldThumbnail}]]
    /\ media["a2"] = [featured_image |-> Photo,
                      featured_image_thumbnail |-> EmptyField]
    /\ profiles \in [Authors -> {EmptyField, Portrait, Broken}]
    /\ profiles["u2"] = Portrait
    /\ InitRows

NextCommand ==
    \/ \E e \in Editors :
        \/ ChangeFormPost(e)
        \/ SaveModel(e)
    \/ StorageFault
    \/ CommandStart
    \/ CommandThumbnail
    \/ CommandOptimize
    \/ CommandLoadAuthors
    \/ CommandAuthor

(***************************************************************************)
(* The calls of get_upload_path: every file name of up to MaxNameLen       *)
(* characters, for both models that use it, in three months.               *)
(***************************************************************************)
MaxNameLen == 3

UploadChars == {"a", "M", "1", " ", "-", "_", "!", "é", "."}

FileNames == UNION {[1..n -> UploadChars] : n \in 1..MaxNameLen}

\* 2024-01-01, 2024-02-01 and 2025-01-01
UploadTimes == {0, 31 * SecondsPerDay, 366 * SecondsPerDay}

InitUpload ==
    /\ now \in UploadTimes
    /\ articles = [a \in Articles |-> PublishedRow]
    /\ views0 = [a \in Articles |-> 0]
    /\ viewers = [v \in Viewers |-> IdleViewer]
    /\ increments = [v \in Viewers |-> NoIncrement]
    /\ CacheIdle
    /\ ImageIdle
    /\ SaveIdle
    /\ upload \in [pc : {"idle"}, class_name : {ArticleClass, AuthorClass},
                   filename : FileNames, path : {<<>>}]
    /\ SettingsIdle
    /\ PublicIdle

\* The field's generate_filename calls upload_to(instance, filename).
GetUploadPath ==
    /\ upload.pc = "idle"
    /\ upload' = [upload EXCEPT
            !.pc = "done",
            !.path = get_upload_path(upload.class_name, upload.filename, now)]
    /\ UNCHANGED <<imageVars, now, viewVars, cacheVars, saveVars, settingsVars,
                   publicVars>>

NextUpload == GetUploadPath

(***************************************************************************)
(* news/views.py and news/context_processors.py: the public pages.  Each   *)
(* request is one step; a list is the set of the articles its queryset     *)
(* gives (the slices [:3], [:4], [:5] and the pages of 10 keep all of the  *)
(* articles there are).  A cached dict holds querysets, which cache.set    *)
(* evaluates: a list from the cache has the articles of that moment.       *)
(***************************************************************************)
\* Article.objects.filter(status='published', published_at__lte=timezone.now())
Published(t) == {a \in Articles : PublishedFilter(articles[a], t)}

\* views.py lines 41-45
FeaturedArticles(t) == {a \in Published(t) : flags[a].is_featured}

\* views.py lines 48-52
HomeBreakingNews(t) == {a \in Published(t) : flags[a].is_breaking}

\* context_processors.py lines 25-28
GlobalBreakingNews ==
    {a \in Articles : articles[a].status = "published" /\ flags[a].is_breaking}

\* The entries of a list, as <<name of the list, article>>.
Entries(list, ids) == {<<list, a>> : a \in ids}

\* What a response shows: for every entry, the row as it is stored when
\* the response is made.
Shown(entries) ==
    {[list |-> entry[1], id |-> entry[2],
      status |-> articles[entry[2]].status,
      published_at |-> articles[entry[2]].published_at] : entry \in entries}

Hit(k) == Truthy(CacheGet(cache, k, now))

\* global_context: the cached dict, or a new one.
GlobalEntries ==
    IF Hit("global_context_data") THEN listed["global_context_data"]
    ELSE Entries("ticker", GlobalBreakingNews)

\* HomeView.get_context_data, lines 34-73: the cached dict, or a new one.
HomeEntries ==
    IF Hit("homepage_data") THEN listed["homepage_data"]
    ELSE Entries("featured_articles", FeaturedArticles(now))
            \cup Entries("breaking_news", HomeBreakingNews(now))

\* The cache after the cache.set calls of the keys that missed.
CacheAfter(keys) ==
    [k \in Keys |->
        IF k \in keys /\ ~Hit(k)
        THEN CacheSet(cache, k, now, Timeout(k), now)[k] ELSE cache[k]]

LastSetAfter(keys) ==
    [k \in Keys |-> IF k \in keys /\ ~Hit(k) THEN now ELSE lastSet[k]]

\* The pages whose view lists articles by a condition of its own: related
\* articles of the detail page, category, tag, author and search pages.
ListPages == {"related", "category", "tag", "author", "search"}

\* A page of ListPages (they differ in the view's own condition only): its
\* queryset, of which `wanted` are the articles that meet the view's own
\* condition, and the global_context processor that runs when the template
\* is rendered.
ListPage ==
    /\ \E wanted \in SUBSET Articles :
        response' = [view |-> "list", at |-> now,
                     rows |-> Shown(Entries("articles", Published(now) \cap wanted)
                                    \cup GlobalEntries)]
    /\ cache' = CacheAfter({"global_context_data"})
    /\ lastSet' = LastSetAfter({"global_context_data"})
    /\ listed' = [listed EXCEPT !["global_context_data"] = GlobalEntries]
    /\ UNCHANGED <<imageVars, now, viewVars, page, workers, saveVars, upload,
                   settingsVars, flags>>

\* TrendingArticlesView.get: a JsonResponse, no template.
Trending ==
    /\ response' = [view |-> "trending", at |-> now,
                    rows |-> Shown(Entries("articles", Published(now)))]
    /\ UNCHANGED <<imageVars, now, viewVars, cacheVars, saveVars, upload,
                   settingsVars, flags, listed>>

\* HomeView behind cache_page: the stored page while it lives; else the
\* list of get_queryset, the dict of get_context_data and global_context,
\* and the page is stored.
HomePage ==
    IF page.exp # NULL /\ page.exp > now
    THEN /\ response' = [view |-> "home", at |-> now, rows |-> Shown(listed["page"])]
         /\ UNCHANGED <<imageVars, now, viewVars, cacheVars, saveVars, upload,
                        settingsVars, flags, listed>>
    ELSE LET entries == Entries("articles", Published(now)) \cup HomeEntries
                            \cup GlobalEntries
         IN  /\ response' = [view |-> "home", at |-> now, rows |-> Shown(entries)]
             /\ cache' = CacheAfter(Keys)
             /\ lastSet' = LastSetAfter(Keys)
             /\ page' = [home |-> CacheAfter(Keys)["homepage_data"].value,
                         glob |-> CacheAfter(Keys)["global_context_data"].value,
                         at |-> now, exp |-> now + PageTimeout]
             /\ listed' = [listed EXCEPT !["homepage_data"] = HomeEntries,
                                         !["global_context_data"] = GlobalEntries,
                                         !["page"] = entries]
             /\ UNCHANGED <<imageVars, now, viewVars, workers, saveVars, upload,
                            settingsVars, flags>>

\* The rows at the start: a1 a draft or published, with both flags or none;
\* a2 published, featured and breaking.
InitPublic ==
    /\ articles \in [Articles -> {PublishedRow,
            [status |-> "draft", published_at |-> NULL, views_count |-> 0]}]
    /\ articles["a2"] = PublishedRow
    /\ media = [a \in Articles |-> NoMedia]
    /\ profiles = [u \in Authors |-> Portrait]
    /\ now = 0
    /\ views0 = [a \in Articles |-> articles[a].views_count]
    /\ viewers = [v \in Viewers |-> IdleViewer]
    /\ increments = [v \in Viewers |-> NoIncrement]
    /\ CacheIdle
    /\ ImageIdle
    /\ editors = [e \in Editors |-> IdleEditor]
    /\ command = IdleCommand
    /\ upload = IdleUpload
    /\ SettingsIdle
    /\ flags \in [Articles -> {[is_featured |-> FALSE, is_breaking |-> FALSE],
                                [is_featured |-> TRUE, is_breaking |-> TRUE]}]
    /\ flags["a2"] = [is_featured |-> TRUE, is_breaking |-> TRUE]
    /\ listed = [c \in CacheNames |-> {}]
    /\ response = NoResponse

\* The detail request that runs beside the other pages.
PublicViewers == {1}

NextPublic ==
    \/ Clock
    \/ \E e \in Editors :
        \/ ChangeFormPost(e)
        \/ SaveModel(e)
    \/ \E v \in PublicViewers :
        \/ GetObjectFound(v)
        \/ UpdateViews(v)
        \/ RefreshObject(v)
    \/ ListPage
    \/ Trending
    \/ HomePage

(***************************************************************************)
(* news/admin.py: SiteSettingsAdmin.  An add request is the POST of the    *)
(* add view: ModelAdmin checks has_add_permission, validates the form and  *)
(* then saves the new instance, as two statements on the database.  A      *)
(* delete request is the POST of the delete view.                          *)
(***************************************************************************)
\* Lines 187-189: not SiteSettings.objects.exists()
has_add_permission(rows) == rows = {}

\* Lines 191-193
has_delete_permission == FALSE

\* The primary key an INSERT gives the new row.
NextPk(rows) == Cardinality(rows) + 1

\* The add view up to its permission check: PermissionDenied if it fails.
AddViewCheck(s) ==
    /\ site_requests[s] = "idle"
    /\ site_requests' = [site_requests EXCEPT ![s] =
            IF has_add_permission(site_settings) THEN "add_permitted"
            ELSE "add_denied"]
    /\ UNCHANGED site_settings
    /\ UNCHANGED <<imageVars, now, viewVars, cacheVars, saveVars, upload,
                   publicVars>>

\* save_model of a permitted add request: the INSERT.  No constraint of the
\* table limits its rows (models.py lines 192-225).  The database is not
\* part of the repository: one that serialises the request's transaction
\* refuses the INSERT when a row was committed after the request's check.
AddViewSave(s) ==
    /\ site_requests[s] = "add_permitted"
    /\ \/ /\ site_settings' = site_settings \cup {NextPk(site_settings)}
          /\ site_requests' = [site_requests EXCEPT ![s] = "added"]
       \/ /\ site_settings # {}
          /\ site_requests' = [site_requests EXCEPT ![s] = "add_refused"]
          /\ UNCHANGED site_settings
    /\ UNCHANGED <<imageVars, now, viewVars, cacheVars, saveVars, upload,
                   publicVars>>

\* The delete view of a row: PermissionDenied unless has_delete_permission.
DeleteView(s) ==
    /\ site_requests[s] = "idle"
    /\ site_settings # {}
    /\ IF has_delete_permission
       THEN \E pk \in site_settings :
                /\ site_settings' = site_settings \ {pk}
                /\ site_requests' = [site_requests EXCEPT ![s] = "deleted"]
       ELSE /\ site_requests' = [site_requests EXCEPT ![s] = "delete_denied"]
            /\ UNCHANGED site_settings
    /\ UNCHANGED <<imageVars, now, viewVars, cacheVars, saveVars, upload,
                   publicVars>>

\* The response is sent; the admin can make another request.
SettingsResponse(s) ==
    /\ site_requests[s] \in {"add_denied", "added", "add_refused", "deleted",
                              "delete_denied"}
    /\ site_requests' = [site_requests EXCEPT ![s] = "idle"]
    /\ UNCHANGED site_settings
    /\ UNCHANGED <<imageVars, now, viewVars, cacheVars, saveVars, upload,
                   publicVars>>

InitSettings ==
    /\ now = 0
    /\ articles = [a \in Articles |-> PublishedRow]
    /\ views0 = [a \in Articles |-> 0]
    /\ viewers = [v \in Viewers |-> IdleViewer]
    /\ increments = [v \in Viewers |-> NoIncrement]
    /\ CacheIdle
    /\ ImageIdle
    /\ SaveIdle
    /\ upload = IdleUpload
    /\ PublicIdle
    /\ site_settings \in {{}, {1}}
    /\ site_requests = [s \in SettingsAdmins |-> "idle"]

NextSettings ==
    \E s \in SettingsAdmins :
        \/ AddViewCheck(s)
        \/ AddViewSave(s)
        \/ DeleteView(s)
        \/ SettingsResponse(s)

vars == <<now, articles, views0, viewers, cache, page, lastSet, workers,
          image_field, size, fault, optimized, thumbnail, increments,
          media, profiles, editors, command, upload, site_settings,
          site_requests, flags, listed, response>>

SpecViews == InitViews /\ [][NextViews]_vars

SpecCache == InitCache /\ [][NextCache]_vars

SpecImage == InitImage /\ [][NextImage]_vars

SpecSave == InitSave /\ [][NextSave]_vars

SpecCommand == InitCommand /\ [][NextCommand]_vars
SpecEdit == InitEdit /\ [][NextEdit]_vars
SpecUpload == InitUpload /\ [][NextUpload]_vars
SpecSettings == InitSettings /\ [][NextSettings]_vars
SpecPublic == InitPublic /\ [][NextPublic]_vars

(***************************************************************************)
(* C1: N concurrent article-detail requests for one published article      *)
(* leave its stored views_count exactly N above where it started: once    *)
(* every request has finished, each row's counter is its initial value     *)
(* plus the number of requests that resolved that row.                     *)
(***************************************************************************)
Resolved(a) == {v \in Viewers : viewers[v].obj.id = a}

AllViewersFinished == \A v \in Viewers : viewers[v].pc \in {"done", "http404"}

C1_NoLostIncrement ==
    AllViewersFinished =>
        \A a \in Articles :
            articles[a].views_count = views0[a] + Cardinality(Resolved(a))

\* All NumViewers requests resolved the same article and finished.
C1_Witness ==
    /\ \A v \in Viewers : viewers[v].pc = "done" /\ viewers[v].obj.id = "a1"
    /\ articles["a1"].views_count = views0["a1"] + NumViewers

(***************************************************************************)
(* The cache claims.  ClaimTTL is the time-to-live the claims state for    *)
(* each key; SetPc is the step at which a request that missed on a key     *)
(* runs the computation and cache.set.                                     *)
(***************************************************************************)
ClaimTTL(k) == IF k = "homepage_data" THEN 600 ELSE 900

SetPc(k) == IF k = "homepage_data" THEN "home_set" ELSE "global_set"

\* Request w performs its cache.get on key k in this step.
IsGet(w, k) == workers[w].got[k] = "no" /\ workers'[w].got[k] # "no"

\* The latest cache.set on k was made less than the key's TTL ago.
InWindow(k) == lastSet[k] # NULL /\ now < lastSet[k] + ClaimTTL(k)

(***************************************************************************)
(* C2: for each key, a call inside the TTL window of the latest cache.set  *)
(* gets the stored value and neither recomputes nor stores; a call made    *)
(* when nothing was stored or the TTL has run out misses, and then runs    *)
(* the computation and cache.set.                                          *)
(***************************************************************************)
C2_GetStep(w, k) ==
    IsGet(w, k) =>
        /\ InWindow(k) =>
              /\ workers'[w].got[k] = "hit"
              /\ workers'[w].val[k] = lastSet[k]
              /\ workers'[w].pc # SetPc(k)
              /\ cache' = cache
        /\ ~InWindow(k) =>
              /\ workers'[w].got[k] = "miss"
              /\ workers'[w].pc = SetPc(k)

C2_Path(w, k) ==
    /\ workers[w].got[k] = "hit" => ~workers[w].didSet[k]
    /\ workers[w].got[k] = "miss" /\ workers[w].pc # SetPc(k) => workers[w].didSet[k]

C2_ComputeOncePerWindow ==
    /\ [][\A w \in Workers, k \in Keys : C2_GetStep(w, k)]_vars
    /\ [](\A w \in Workers, k \in Keys : C2_Path(w, k))

\* One request recomputed 'homepage_data' after the first value (still in the
\* stored page) had expired, and the other request then got that new value
\* from the cache without computing.
C2_Witness ==
    /\ page.home = 0
    /\ \E w \in Workers, o \in Workers :
         /\ w # o
         /\ workers[w].got["homepage_data"] = "miss"
         /\ workers[w].didSet["homepage_data"]
         /\ workers[w].val["homepage_data"] >= 600
         /\ workers[o].got["homepage_data"] = "hit"
         /\ ~workers[o].didSet["homepage_data"]
         /\ workers[o].val["homepage_data"] = workers[w].val["homepage_data"]

(***************************************************************************)
(* C3 as stated: whenever a request is handed the data of a key -- by      *)
(* cache.get, by its own computation, or inside the page-cached homepage   *)
(* response -- that data was evaluated less than the key's TTL ago.        *)
(***************************************************************************)
\* Request w is handed data for key k in this step.
IsServed(w, k) == workers'[w].val[k] # NoValue /\ workers'[w].val[k] # workers[w].val[k]

C3_Original ==
    [][\A w \in Workers, k \in Keys :
         IsServed(w, k) => now - workers'[w].val[k] < ClaimTTL(k)]_vars

(***************************************************************************)
(* C3 as amended: a cache entry is never served past its own expiry.  Data *)
(* handed over by cache.get on a key was evaluated less than the key's TTL *)
(* ago, and a response handed over by cache_page was stored less than      *)
(* 300 s ago; the data inside such a response may be older than its TTL.   *)
(***************************************************************************)
C3_EntryNotServedPastExpiry ==
    [][\A w \in Workers, k \in Keys :
         IsServed(w, k) =>
            IF workers'[w].pageHit
            THEN now - page.at < 300 /\ workers'[w].val[k] = (IF k = "homepage_data" THEN page.home ELSE page.glob)
            ELSE now - workers'[w].val[k] < ClaimTTL(k)]_vars

\* A finished homepage request was served, from the page cache, homepage
\* data that is 600 s old or older.
C3_Witness ==
    \E w \in Workers :
        /\ workers[w].pc = "done" /\ workers[w].pageHit
        /\ now - workers[w].val["homepage_data"] >= 600
        /\ now - page.at < 300

(***************************************************************************)
(* C4: no stampede protection, last writer wins.  Every request that read  *)
(* a miss on a key runs the computation and cache.set, also when another   *)
(* request missed on the same key at the same time; and the stored entry   *)
(* is always the value and expiry written by the latest cache.set.         *)
(***************************************************************************)
C4_LastWriterWins ==
    /\ \A w \in Workers, k \in Keys :
          workers[w].got[k] = "miss" /\ workers[w].pc # SetPc(k) => workers[w].didSet[k]
    /\ \A k \in Keys :
          lastSet[k] # NULL =>
             cache[k] = [value |-> lastSet[k], exp |-> lastSet[k] + ClaimTTL(k)]

\* Both requests missed on 'homepage_data' before either stored (the second
\* value was stored inside the first one's TTL, so its request cannot have
\* read after the first cache.set), both stored, and the later one stands.
C4_Witness ==
    \E w \in Workers, o \in Workers :
        /\ workers[w].got["homepage_data"] = "miss" /\ workers[w].didSet["homepage_data"]
        /\ workers[o].got["homepage_data"] = "miss" /\ workers[o].didSet["homepage_data"]
        /\ workers[w].val["homepage_data"] < workers[o].val["homepage_data"]
        /\ workers[o].val["homepage_data"] < workers[w].val["homepage_data"] + 600
        /\ cache["homepage_data"].value = workers[o].val["homepage_data"]
        /\ cache["homepage_data"].exp = workers[o].val["homepage_data"] + 600

(***************************************************************************)
(* The image claims.  File is the uploaded file as stored.  InputSize is   *)
(* the size of the image as it is to be seen: width and height change      *)
(* places under an EXIF orientation of 5 to 8, which a file flattened onto *)
(* a background no longer carries.                                         *)
(***************************************************************************)
File == image_field.file

StoredSize == <<File.width, File.height>>

InputSize ==
    IF File.orientation \in 5..8 /\ File.mode \notin {"RGBA", "LA", "P"}
    THEN <<File.height, File.width>>
    ELSE StoredSize

OutputSize(r) == <<r.image.width, r.image.height>>

Exceeds(wh, box) == wh[1] > box[1] \/ wh[2] > box[2]

Within(wh, box) == wh[1] <= box[1] /\ wh[2] <= box[2]

\* min(max_width / width, max_height / height) as an exact fraction
\* <<numerator, denominator>>, for an image of size wh.
ExactFactor(wh, box) ==
    IF box[1] * wh[2] <= box[2] * wh[1] THEN <<box[1], wh[1]>>
    ELSE <<box[2], wh[2]>>

(***************************************************************************)
(* C5: whenever optimize_image produces an image from a file whose width   *)
(* exceeds max_width or whose height exceeds max_height (as stored, or as  *)
(* oriented), the produced image has width <= max_width and height <=      *)
(* max_height.                                                             *)
(***************************************************************************)
C5_OutputFitsBox ==
    /\ optimized.kind = "pair"
    /\ Exceeds(StoredSize, size) \/ Exceeds(InputSize, size)
    => Within(OutputSize(optimized), size)

\* 4000x3000 under the default 1200x800 comes out as 1066x800.
C5_Witness ==
    /\ optimized.kind = "pair"
    /\ StoredSize = <<4000, 3000>> /\ File.orientation = 1
    /\ size = <<1200, 800>>
    /\ OutputSize(optimized) = <<1066, 800>>

(***************************************************************************)
(* C6: when optimize_image downscales, each output dimension is the input  *)
(* dimension times the one factor min(max_width/width, max_height/height). *)
(* C6_Original states the claim as written: the output dimension is the    *)
(* floor of the exactly scaled value, so less than one pixel below it.     *)
(* C6_AspectPreserved states what holds: the output dimension is never     *)
(* above the exactly scaled value, and is its floor unless the exactly     *)
(* scaled value is a whole number, when it is that number or one less.     *)
(***************************************************************************)
Downscaled == optimized.kind = "pair" /\ Exceeds(InputSize, size)

C6_Original ==
    Downscaled =>
        \A i \in 1..2 :
            LET factor == ExactFactor(InputSize, size)
            IN  OutputSize(optimized)[i] = (InputSize[i] * factor[1]) \div factor[2]

C6_AspectPreserved ==
    Downscaled =>
        \A i \in 1..2 :
            LET factor == ExactFactor(InputSize, size)
                num == InputSize[i] * factor[1]
                out == OutputSize(optimized)[i]
            IN  /\ out * factor[2] <= num
                /\ \/ out = num \div factor[2]
                   \/ num % factor[2] = 0 /\ out = (num \div factor[2]) - 1

\* 800x1078 under 1200x800 scales by 800/1078: the height is exactly 800,
\* and comes out as 799.
C6_Witness ==
    /\ Downscaled
    /\ InputSize = <<800, 1078>> /\ size = <<1200, 800>>
    /\ OutputSize(optimized) = <<593, 799>>

(***************************************************************************)
(* C7: optimize_image never upscales.  C7_Original states the claim on the *)
(* file's stored width and height: a file within the bounds comes out with *)
(* exactly its dimensions, and no output dimension is larger than the same *)
(* dimension of the file.  C7_NeverUpscales states it on the dimensions    *)
(* of the oriented image.                                                  *)
(***************************************************************************)
C7_Original ==
    optimized.kind = "pair" =>
        /\ Within(StoredSize, size) => OutputSize(optimized) = StoredSize
        /\ Within(OutputSize(optimized), StoredSize)

C7_NeverUpscales ==
    optimized.kind = "pair" =>
        /\ Within(InputSize, size) => OutputSize(optimized) = InputSize
        /\ Within(OutputSize(optimized), InputSize)

\* A 200x300 file with orientation 6, within 1200x800, comes out as 300x200.
C7_Witness ==
    /\ optimized.kind = "pair"
    /\ StoredSize = <<200, 300>> /\ File.orientation = 6 /\ File.mode = "RGB"
    /\ size = <<1200, 800>>
    /\ OutputSize(optimized) = <<300, 200>>

(***************************************************************************)
(* C8: the image create_thumbnail produces fits the box (W, H) and is not  *)
(* larger than the input on either axis.  C8_Original takes the input's    *)
(* width and height as stored in the file, C8_ThumbnailFits as oriented.   *)
(***************************************************************************)
C8_Original ==
    thumbnail.kind = "pair" =>
        /\ Within(OutputSize(thumbnail), size)
        /\ Within(OutputSize(thumbnail), StoredSize)

C8_ThumbnailFits ==
    thumbnail.kind = "pair" =>
        /\ Within(OutputSize(thumbnail), size)
        /\ Within(OutputSize(thumbnail), InputSize)

\* 4000x3000 in the default 300x200 comes out as 267x200.
C8_Witness ==
    /\ thumbnail.kind = "pair"
    /\ InputSize = <<4000, 3000>> /\ size = <<300, 200>>
    /\ OutputSize(thumbnail) = <<267, 200>>

(***************************************************************************)
(* C9: for a file of mode RGBA, LA or P, the image that optimize_image and *)
(* create_thumbnail produce is an opaque RGB image, each pixel the file's  *)
(* pixel composited onto white with the file's alpha as the mask.          *)
(***************************************************************************)
\* colour * alpha/255 + white * (1 - alpha/255), rounded to nearest
CompositeOverWhite(px) ==
    (2 * (px.c * px.a + 255 * (255 - px.a)) + 255) \div 510

C9_CompositedOverWhite ==
    \A r \in {optimized, thumbnail} :
        r.kind = "pair" /\ File.mode \in {"RGBA", "LA", "P"} =>
            /\ r.image.mode = "RGB"
            /\ r.image.px = [c |-> CompositeOverWhite(File.px), a |-> 255]

\* A fully transparent black LA file comes out black from both functions.
C9_Witness ==
    /\ File.mode = "LA" /\ File.px = [c |-> 0, a |-> 0]
    /\ optimized.kind = "pair" /\ optimized.image.px.c = 0
    /\ thumbnail.kind = "pair" /\ thumbnail.image.px.c = 0

(***************************************************************************)
(* C10: optimize_image and create_thumbnail never raise to their caller.   *)
(* A call returns None or a (filename, content) pair; None for an empty    *)
(* field and for every failure of decoding, converting, orienting,         *)
(* resizing, encoding or naming; a pair, named after the field, when       *)
(* nothing fails.                                                          *)
(***************************************************************************)
\* The resize of optimize_image is asked for a side of 0 pixels.
ScalesToNothing ==
    /\ Exceeds(InputSize, size)
    /\ \E i \in 1..2 :
        LET factor == ExactFactor(InputSize, size)
        IN  InputSize[i] * factor[1] <= factor[2]

C10_Returns(r, suffix, canVanish) ==
    /\ r.kind \in {"not_called", "None", "pair"}
    /\ r.kind # "not_called" =>
        /\ image_field.name = <<>> => r.kind = "None"
        /\ ~File.decodable => r.kind = "None"
        /\ fault \in {"open", "transpose", "save", "name"} => r.kind = "None"
        /\ fault = "convert" /\ File.mode \in {"RGBA", "LA", "P"} => r.kind = "None"
        /\ fault = "resize" /\ Exceeds(InputSize, size) => r.kind = "None"
        /\ File.mode = "F" => r.kind = "None"
        /\ r.kind = "pair" =>
            /\ Len(r.name) = Len(Splitext(image_field.name)[1]) + Len(suffix)
            /\ SubSeq(r.name, Len(r.name) - Len(suffix) + 1, Len(r.name)) = suffix
        /\ /\ image_field.name # <<>> /\ File.decodable /\ fault = "none"
           /\ File.mode # "F" /\ ~(canVanish /\ ScalesToNothing)
           => r.kind = "pair"

C10_NeverRaises ==
    /\ C10_Returns(optimized, OptimizedSuffix, TRUE)
    /\ C10_Returns(thumbnail, ThumbSuffix, FALSE)

\* Both calls returned None on a file that cannot be encoded.
C10_Witness ==
    /\ image_field.name # <<>> /\ File.decodable /\ fault = "save"
    /\ optimized.kind = "None" /\ thumbnail.kind = "None"

(***************************************************************************)
(* The claims on Article.save, the admin and the optimize_images command.  *)
(***************************************************************************)
\* Editor e's save_model runs in this step, on the instance Saved(e).
SaveStep(e) == editors[e].pc = "save" /\ editors'[e].pc = "done"

Saved(e) == editors[e].obj

\* The command runs its thumbnail half, its optimize half, its author body
\* in this step.
ThumbnailStep == command.pc = "thumbnail" /\ command'.pc = "optimize"

OptimizeStep == command.pc = "optimize" /\ command' # command

AuthorStep == command.pc = "authors" /\ command' # command

\* create_thumbnail and optimize_image return None for the field.
ThumbnailFails(field) ==
    create_thumbnail(field, ThumbnailSize, fault) = {ReturnNone}

OptimizeFails(field, box) ==
    optimize_image(field, box[1], box[2], fault) = ReturnNone

CountsUnchanged ==
    /\ command'.optimized_count = command.optimized_count
    /\ command'.thumbnail_count = command.thumbnail_count
    /\ command'.made = command.made

(***************************************************************************)
(* C11: when image processing returns None the caller leaves the image     *)
(* state as it was.  An Article.save whose create_thumbnail returns None   *)
(* writes the row, with the instance's status, date and featured image,    *)
(* and with the thumbnail the instance had.  A step of optimize_images     *)
(* whose create_thumbnail or optimize_image returns None changes no image  *)
(* column of any row and none of the command's counts.                     *)
(***************************************************************************)
C11_SaveKeeps(e) ==
    SaveStep(e) /\ NeedsThumbnail(Saved(e))
                /\ ThumbnailFails(Saved(e).featured_image) =>
        LET a == Saved(e).id
        IN  /\ media'[a].featured_image_thumbnail = Saved(e).featured_image_thumbnail
            /\ articles'[a].status = Saved(e).status
            /\ Saved(e).published_at # NULL =>
                    articles'[a].published_at = Saved(e).published_at
            /\ media'[a].featured_image.file = Saved(e).featured_image.file
            /\ media'[a].featured_image.committed

C11_CommandKeeps ==
    /\ ThumbnailStep /\ WantsThumbnail(Head(command.articles), command.force)
                     /\ ThumbnailFails(Head(command.articles).featured_image)
        => media' = media /\ profiles' = profiles /\ CountsUnchanged
    /\ OptimizeStep /\ command.force
                    /\ OptimizeFails(Head(command.articles).featured_image,
                                     OptimizeSize)
        => media' = media /\ profiles' = profiles /\ CountsUnchanged
    /\ AuthorStep /\ command.force
                  /\ OptimizeFails(Head(command.authors).profile_image, ProfileSize)
        => media' = media /\ profiles' = profiles /\ CountsUnchanged

C11_NoneLeavesState ==
    [][(\A e \in Editors : C11_SaveKeeps(e)) /\ C11_CommandKeeps]_vars

\* An editor has saved an article with an upload that is no image, and the
\* row holds the upload and no thumbnail; a --force run has passed an author
\* whose profile image is no image, and has not counted it.
C11_Witness ==
    /\ \E e \in Editors :
        /\ editors[e].pc = "done"
        /\ ~Saved(e).featured_image.committed
        /\ ~Saved(e).featured_image.file.decodable
        /\ media[Saved(e).id].featured_image.file = Saved(e).featured_image.file
        /\ media[Saved(e).id].featured_image.committed
        /\ media[Saved(e).id].featured_image_thumbnail = EmptyField
    /\ command.pc = "done" /\ command.force
    /\ profiles["u1"] = Broken
    /\ <<"profile_image", "u1">> \notin command.made

(***************************************************************************)
(* C12: in every Article.save on an instance with a featured image and no  *)
(* thumbnail, create_thumbnail runs and, where it succeeds, the thumbnail  *)
(* is attached before the row is written, so the row that save writes      *)
(* carries the thumbnail.  Article.save is called by save_model and, with  *)
(* update_fields, by the two halves of the optimize_images loop.           *)
(***************************************************************************)
\* create_thumbnail succeeds on the field.
ThumbnailSucceeds(field) ==
    ReturnNone \notin create_thumbnail(field, ThumbnailSize, fault)

\* The instance the optimize half hands to Article.save, when it saves.
Optimized(article) ==
    LET r == optimize_image(article.featured_image, OptimizeSize[1],
                            OptimizeSize[2], fault)
    IN  [article EXCEPT !.featured_image =
            FieldFileSave(get_upload_path(ArticleClass, r.name, now),
                          ContentFile(r.image))]

C12_SaveCarries(e) ==
    SaveStep(e) /\ NeedsThumbnail(Saved(e))
                /\ ThumbnailSucceeds(Saved(e).featured_image) =>
        /\ FieldBool(media'[Saved(e).id].featured_image_thumbnail)
        /\ media'[Saved(e).id].featured_image_thumbnail.file.decodable

C12_CommandCarries ==
    OptimizeStep /\ command.force
                 /\ ~OptimizeFails(Head(command.articles).featured_image,
                                   OptimizeSize)
                 /\ NeedsThumbnail(Optimized(Head(command.articles)))
                 /\ ThumbnailSucceeds(Optimized(Head(command.articles)).featured_image)
        => /\ FieldBool(command'.article.featured_image_thumbnail)
           /\ media'[command'.article.id].featured_image_thumbnail =
                    command'.article.featured_image_thumbnail

C12_RowCarriesThumbnail ==
    [][(\A e \in Editors : C12_SaveCarries(e)) /\ C12_CommandCarries]_vars

\* The save of save_model alone: the row it writes carries the thumbnail.
C12_AdminRowCarriesThumbnail == [][\A e \in Editors : C12_SaveCarries(e)]_vars

\* A --force run has saved the optimized image of an article that had no
\* thumbnail; the instance it saved carries a thumbnail and the row none.
C12_Witness ==
    /\ command.force
    /\ <<"featured_image", command.article.id>> \in command.made
    /\ <<"featured_image_thumbnail", command.article.id>> \notin command.made
    /\ FieldBool(command.article.featured_image_thumbnail)
    /\ ~FieldBool(media[command.article.id].featured_image_thumbnail)
    /\ media[command.article.id].featured_image = command.article.featured_image
    /\ \A e \in Editors : editors[e].pc = "idle"

(***************************************************************************)
(* C13: the counter on the object get_object returns is read after the     *)
(* request's own increment: under any interleaving with other requests it  *)
(* is at least one greater than the value the row held when the request's  *)
(* UPDATE began.                                                           *)
(***************************************************************************)
Returned(v) == viewers[v].pc = "done"

C13_FreshAfterIncrement ==
    \A v \in Viewers :
        Returned(v) => viewers[v].obj.views_count >= increments[v].before + 1

\* The same, where no save of the whole row has come between the request's
\* UPDATE and its read.
C13_FreshUnlessOverwritten ==
    \A v \in Viewers :
        Returned(v) /\ ~increments[v].overwritten =>
            viewers[v].obj.views_count >= increments[v].before + 1

\* A request has returned an object whose counter is not above the value
\* its own UPDATE found: a save_model has written the row in between.
C13_Witness ==
    \E v \in Viewers :
        /\ Returned(v)
        /\ increments[v].overwritten
        /\ viewers[v].obj.views_count <= increments[v].before
        /\ \E e \in Editors : editors[e].pc = "done" /\ Saved(e).id = viewers[v].obj.id

(***************************************************************************)
(* C14: get_upload_path returns                                            *)
(* '<lowercased model name>s/<year>/<month>/<clean name><ext>', the clean  *)
(* name being the stem of the file name with every character other than    *)
(* alphanumerics, space, hyphen and underscore removed and every remaining *)
(* space replaced by an underscore; the clean name holds no space and no   *)
(* character outside alphanumerics, hyphen and underscore.                 *)
(***************************************************************************)
\* The directory of each model in each of the months of UploadTimes.
ModelDirs ==
    [c \in {ArticleClass, AuthorClass} |->
        IF c = ArticleClass THEN <<"a", "r", "t", "i", "c", "l", "e", "s", "/">>
        ELSE <<"a", "u", "t", "h", "o", "r", "s", "/">>]

MonthDirs ==
    [t \in UploadTimes |->
        IF t = 0 THEN <<"2", "0", "2", "4", "/", "0", "1", "/">>
        ELSE IF t = 31 * SecondsPerDay THEN <<"2", "0", "2", "4", "/", "0", "2", "/">>
        ELSE <<"2", "0", "2", "5", "/", "0", "1", "/">>]

\* The stem with the characters the code does not keep removed.
KeptOfStem == KeepClean(Splitext(upload.filename)[1])

RECURSIVE WithoutTrailingSpaces(_)
WithoutTrailingSpaces(text) ==
    IF text = <<>> \/ text[Len(text)] # " " THEN text
    ELSE WithoutTrailingSpaces(SubSeq(text, 1, Len(text) - 1))

\* The path is directory, clean name and extension, for the clean name given.
PathIs(clean) ==
    upload.path = ModelDirs[upload.class_name] \o MonthDirs[now] \o clean
                    \o Splitext(upload.filename)[2]

NoSpaceNoOther(clean) ==
    \A i \in 1..Len(clean) : IsAlnum(clean[i]) \/ clean[i] \in {"-", "_"}

\* The claim as it stands: every space that is kept becomes an underscore.
C14_Original ==
    upload.pc = "done" =>
        LET clean == [i \in 1..Len(KeptOfStem) |->
                        IF KeptOfStem[i] = " " THEN "_" ELSE KeptOfStem[i]]
        IN  PathIs(clean) /\ NoSpaceNoOther(clean)

\* The spaces at the end of what is kept are removed, the others replaced.
C14_UploadPath ==
    upload.pc = "done" =>
        LET trimmed == WithoutTrailingSpaces(KeptOfStem)
            clean == [i \in 1..Len(trimmed) |->
                        IF trimmed[i] = " " THEN "_" ELSE trimmed[i]]
        IN  PathIs(clean) /\ NoSpaceNoOther(clean)

\* The path of the Article upload ' a ' in January 2025: the first space
\* has become an underscore, the last is gone.
C14_Witness ==
    /\ upload.pc = "done"
    /\ upload.class_name = ArticleClass
    /\ upload.filename = <<" ", "a", " ">>
    /\ upload.path = <<"a", "r", "t", "i", "c", "l", "e", "s", "/",
                       "2", "0", "2", "5", "/", "0", "1", "/", "_", "a">>

(***************************************************************************)
(* C15: at most one SiteSettings row ever exists, also when admin add      *)
(* requests interleave their has_add_permission check and their save, and  *)
(* a row is never deleted through the admin.                               *)
(***************************************************************************)
C15_AtMostOneRow == Cardinality(site_settings) <= 1

\* No request of the admin removes a row.
C15_NeverDeleted == [][site_settings \subseteq site_settings']_vars

\* Two add requests have both passed the check and both saved: two rows.
C15_Witness ==
    /\ site_requests["s1"] = "added"
    /\ site_requests["s2"] = "added"
    /\ Cardinality(site_settings) = 2

(***************************************************************************)
(* C16: after every Article.save a published article has a published_at    *)
(* that is not null, and a published_at that is set on the instance is     *)
(* not changed by save: the row is written with it, whatever statuses the  *)
(* article has gone through before.                                        *)
(***************************************************************************)
C16_SaveDates(e) ==
    SaveStep(e) =>
        LET row == articles'[Saved(e).id]
        IN  /\ row.status = Saved(e).status
            /\ row.status = "published" => row.published_at # NULL
            /\ Saved(e).published_at # NULL =>
                    row.published_at = Saved(e).published_at
            /\ Saved(e).published_at = NULL =>
                    row.published_at = IF row.status = "published" THEN now
                                       ELSE NULL

C16_PublishedAtKept ==
    [][(\A e \in Editors : C16_SaveDates(e))
       /\ \A a \in Articles : SavedRow(articles'[a])]_vars

\* An article first published at time 0 and archived since has been
\* published again, and its row has the date of the first publication.
C16_Witness ==
    \E e \in Editors :
        /\ editors[e].pc = "done"
        /\ editors[e].initial.status = "archived"
        /\ editors[e].initial.published_at = 0
        /\ Saved(e).status = "published"
        /\ now > 0
        /\ articles[Saved(e).id].status = "published"
        /\ articles[Saved(e).id].published_at = 0

(***************************************************************************)
(* C17: without --force optimize_images modifies no featured_image and no  *)
(* profile_image, and creates a thumbnail only for articles that have a    *)
(* featured image and no thumbnail; with --force it regenerates the        *)
(* thumbnail and re-optimizes the main image of every article with a       *)
(* featured image, and the profile image of every author with one.         *)
(***************************************************************************)
FitsIn(field, box) ==
    /\ FieldBool(field) /\ field.file.decodable
    /\ field.file.width <= box[1] /\ field.file.height <= box[2]

\* The step has saved a new thumbnail of the article, and counted it.
ThumbnailMade(article) ==
    /\ command'.thumbnail_count = command.thumbnail_count + 1
    /\ <<"featured_image_thumbnail", article.id>> \in command'.made
    /\ FitsIn(media'[article.id].featured_image_thumbnail, ThumbnailSize)
    /\ \E r \in create_thumbnail(article.featured_image, ThumbnailSize, fault) :
        media'[article.id].featured_image_thumbnail.file = ContentFile(r.image)

\* The step has saved the optimized main image of the article, and counted it.
ImageOptimized(article) ==
    /\ command'.optimized_count = command.optimized_count + 1
    /\ <<"featured_image", article.id>> \in command'.made
    /\ FitsIn(media'[article.id].featured_image, OptimizeSize)
    /\ media'[article.id].featured_image.name # article.featured_image.name

ProfileOptimized(author) ==
    /\ command'.optimized_count = command.optimized_count + 1
    /\ <<"profile_image", author.id>> \in command'.made
    /\ FitsIn(profiles'[author.id], ProfileSize)
    /\ profiles'[author.id].name # author.profile_image.name

\* A run without --force: the command's steps write no main image and no
\* profile image, and a thumbnail only for the instance that has an image
\* and no thumbnail.
C17_Unforced ==
    command' # command /\ ~command'.force =>
        /\ profiles' = profiles
        /\ \A a \in Articles :
            /\ media'[a].featured_image = media[a].featured_image
            /\ media'[a].featured_image_thumbnail # media[a].featured_image_thumbnail
                => /\ ThumbnailStep
                   /\ Head(command.articles).id = a
                   /\ NeedsThumbnail(Head(command.articles))
        /\ ThumbnailStep /\ NeedsThumbnail(Head(command.articles))
                         /\ ~ThumbnailFails(Head(command.articles).featured_image)
            => ThumbnailMade(Head(command.articles))

\* The claim as it stands, for a run with --force: every instance with an
\* image has its thumbnail and its image made anew.
C17_ForcedEvery ==
    /\ ThumbnailStep /\ command.force
                     /\ FieldBool(Head(command.articles).featured_image)
        => ThumbnailMade(Head(command.articles))
    /\ OptimizeStep /\ command.force
                    /\ FieldBool(Head(command.articles).featured_image)
        => ImageOptimized(Head(command.articles))
    /\ AuthorStep /\ command.force
                  /\ FieldBool(Head(command.authors).profile_image)
        => ProfileOptimized(Head(command.authors))

\* For a run with --force: every instance whose image the image function
\* can process.
C17_ForcedProcessable ==
    /\ ThumbnailStep /\ command.force
                     /\ ~ThumbnailFails(Head(command.articles).featured_image)
        => ThumbnailMade(Head(command.articles))
    /\ OptimizeStep /\ command.force
                    /\ ~OptimizeFails(Head(command.articles).featured_image,
                                      OptimizeSize)
        => ImageOptimized(Head(command.articles))
    /\ AuthorStep /\ command.force
                  /\ ~OptimizeFails(Head(command.authors).profile_image, ProfileSize)
        => ProfileOptimized(Head(command.authors))

C17_Original == [][C17_Unforced /\ C17_ForcedEvery]_vars

C17_CommandEffect == [][C17_Unforced /\ C17_ForcedProcessable]_vars

\* A --force run has ended: of a1, whose image is 4000x1 and which had a
\* thumbnail, it has made the thumbnail anew and left the image; it has
\* optimized the image of a2 and the profile image of u2.
C17_Witness ==
    /\ command.pc = "done" /\ command.force
    /\ media["a1"].featured_image = Narrow
    /\ media["a1"].featured_image_thumbnail # OldThumbnail
    /\ <<"featured_image_thumbnail", "a1">> \in command.made
    /\ <<"featured_image", "a1">> \notin command.made
    /\ <<"featured_image", "a2">> \in command.made
    /\ <<"profile_image", "u2">> \in command.made
    /\ FitsIn(media["a2"].featured_image, OptimizeSize)
    /\ FitsIn(profiles["u2"], ProfileSize)

(***************************************************************************)
(* C18: the stored views_count of an article never decreases and is its    *)
(* initial value plus the number of view increments completed, under any   *)
(* interleaving of detail requests with Article.save on an instance loaded *)
(* earlier (save_model of the admin, or the optimize_images command).      *)
(***************************************************************************)
\* The detail requests whose UPDATE of row a has been executed.
Incremented(a) ==
    {v \in Viewers : viewers[v].obj.id = a /\ viewers[v].pc \in {"refresh", "done"}}

C18_CountsEveryIncrement ==
    \A a \in Articles :
        articles[a].views_count = views0[a] + Cardinality(Incremented(a))

\* The saves of the command write no column of the counter's table but the
\* two image columns.
C18_CommandKeepsCounter == [][command' # command => articles' = articles]_vars

\* A save_model has written the counter it loaded over an increment made
\* since: the row counts fewer views than have been completed.
C18_Witness ==
    \E e \in Editors :
        /\ editors[e].pc = "done"
        /\ Incremented(Saved(e).id) # {}
        /\ \A v \in Incremented(Saved(e).id) : viewers[v].pc = "done"
        /\ articles[Saved(e).id].views_count = Saved(e).views_count
        /\ articles[Saved(e).id].views_count
                < views0[Saved(e).id] + Cardinality(Incremented(Saved(e).id))

(***************************************************************************)
(* C20: Article.save never replaces an existing thumbnail: a thumbnail     *)
(* that is set when save is called is left as it is, also when the         *)
(* featured image has been replaced since it was made; and save creates    *)
(* no thumbnail when the featured image is empty.                          *)
(***************************************************************************)
C20_SaveKeeps(e) ==
    SaveStep(e) =>
        LET thumbnail_after == media'[Saved(e).id].featured_image_thumbnail
        IN  /\ FieldBool(Saved(e).featured_image_thumbnail) =>
                    thumbnail_after = Saved(e).featured_image_thumbnail
            /\ ~FieldBool(Saved(e).featured_image) =>
                    thumbnail_after = Saved(e).featured_image_thumbnail

\* The saves of the command: the one of the optimize half writes no
\* thumbnail, the one of the thumbnail half the thumbnail the command has
\* attached before it.
C20_CommandSaves ==
    /\ OptimizeStep =>
        \A a \in Articles :
            media'[a].featured_image_thumbnail = media[a].featured_image_thumbnail
    /\ ThumbnailStep =>
        \A a \in Articles :
            media'[a].featured_image_thumbnail # media[a].featured_image_thumbnail
                => /\ a = Head(command.articles).id
                   /\ FieldBool(Head(command.articles).featured_image)
                   /\ media'[a].featured_image_thumbnail
                        = Head(command'.articles).featured_image_thumbnail

C20_ThumbnailNotReplaced ==
    [][(\A e \in Editors : C20_SaveKeeps(e)) /\ C20_CommandSaves]_vars

\* An editor has replaced the featured image of an article that had a
\* thumbnail by an upload, and cleared the image of none: the row holds
\* the upload and the thumbnail of the image before.
C20_Witness ==
    \E e \in Editors :
        /\ editors[e].pc = "done"
        /\ Saved(e).featured_image \in Uploads
        /\ Saved(e).featured_image.file.decodable
        /\ Saved(e).featured_image_thumbnail = OldThumbnail
        /\ media[Saved(e).id].featured_image.file = Saved(e).featured_image.file
        /\ media[Saved(e).id].featured_image.committed
        /\ media[Saved(e).id].featured_image_thumbnail = OldThumbnail

(***************************************************************************)
(* C19: every article exposed to the public (the homepage list, the        *)
(* featured and breaking lists, article detail, the category, tag, author  *)
(* and search listings, the trending endpoint, the breaking-news list of   *)
(* global_context) has status 'published' and a published_at that is not   *)
(* later than the time of the request.                                     *)
(***************************************************************************)
PublicRow(row, t) ==
    row.status = "published" /\ row.published_at # NULL /\ row.published_at <= t

\* The step is a public response, or the lookup of a detail request.
Responds == response' # response

Resolves(v) == viewers[v].pc = "idle" /\ viewers'[v].pc = "update"

C19_ExposedArePublic ==
    [][/\ Responds => \A row \in response'.rows : PublicRow(row, response'.at)
       /\ \A v \in Viewers :
            Resolves(v) => PublicRow(articles[viewers'[v].obj.id], now)]_vars

\* The same for the lists whose queryset is evaluated in the request: all
\* but those that come from a cache entry.
C19_UncachedArePublic ==
    [][/\ Responds /\ response'.view # "home" =>
            \A row \in response'.rows :
                row.list = "articles" => PublicRow(row, response'.at)
       /\ \A v \in Viewers :
            Resolves(v) => PublicRow(articles[viewers'[v].obj.id], now)]_vars

\* An editor has given a published breaking article a published_at that
\* lies ahead, and a page shows it in the ticker of global_context.
C19_Witness ==
    \E e \in Editors :
        /\ editors[e].pc = "done"
        /\ Saved(e).status = "published"
        /\ Saved(e).published_at = ScheduledAt
        /\ response.at # NULL /\ response.at < ScheduledAt
        /\ \E row \in response.rows :
            /\ row.list = "ticker"
            /\ row.id = Saved(e).id
            /\ row.status = "published"
            /\ row.published_at = ScheduledAt

(***************************************************************************)
(* C21: an article-detail request changes only the views_count of the one  *)
(* article it resolves.  A request for a slug that matches no article, a   *)
(* draft or archived article, or an article whose published_at lies ahead  *)
(* ends in not-found and changes no row; a request that succeeds adds one  *)
(* to the views_count of its article and changes nothing else.             *)
(***************************************************************************)
\* The steps of request v: its lookup ends in Http404, its UPDATE runs, its
\* refresh runs.  (Resolves(v) is the lookup that finds a row.)
NotFound(v) == viewers[v].pc = "idle" /\ viewers'[v].pc = "http404"

Updates(v) == viewers[v].pc = "update" /\ viewers'[v].pc = "refresh"

Refreshes(v) == viewers[v].pc = "refresh" /\ viewers'[v].pc = "done"

\* The slug names a row that is published with a published_at not ahead.
SlugIsPublic(slug) ==
    /\ slug \in Articles
    /\ articles[slug].status = "published"
    /\ articles[slug].published_at # NULL
    /\ articles[slug].published_at <= now

C21_Request(v) ==
    /\ Resolves(v) =>
        /\ SlugIsPublic(viewers'[v].slug)
        /\ viewers'[v].obj.id = viewers'[v].slug
        /\ articles' = articles
    /\ NotFound(v) =>
        /\ ~SlugIsPublic(viewers'[v].slug)
        /\ articles' = articles
    /\ Updates(v) =>
        \A a \in Articles :
            /\ articles'[a].status = articles[a].status
            /\ articles'[a].published_at = articles[a].published_at
            /\ articles'[a].views_count =
                    IF a = viewers[v].obj.id THEN articles[a].views_count + 1
                    ELSE articles[a].views_count
    /\ Refreshes(v) => articles' = articles
    /\ viewers[v].pc \in {"http404", "done"} => viewers'[v] = viewers[v]

C21_OnlyOwnCounter == [][\A v \in Viewers : C21_Request(v)]_vars

\* A request for a2, which is published with a published_at that lies
\* ahead, has ended in not-found, and one for a1 has succeeded: the counter
\* of a1 has grown and that of a2 has not.
C21_Witness ==
    \E v, w \in Viewers :
        /\ viewers[v].pc = "http404" /\ viewers[v].slug = "a2"
        /\ articles["a2"].status = "published"
        /\ articles["a2"].published_at > now
        /\ viewers[w].pc = "done" /\ viewers[w].obj.id = "a1"
        /\ articles["a1"].views_count > views0["a1"]
        /\ articles["a2"].views_count = views0["a2"]

\* Whether the article is public is decided by the lookup alone: a request
\* has counted a view of an article that a save_model archived or set back
\* to draft between the request's lookup and its UPDATE.
C21_CountedAfterUnpublished ==
    \E v \in Viewers, e \in Editors :
        /\ viewers[v].pc \in {"refresh", "done"}
        /\ editors[e].pc = "done" /\ Saved(e).id = viewers[v].obj.id
        /\ Saved(e).views_count = views0[Saved(e).id]
        /\ articles[Saved(e).id].status # "published"
        /\ increments[v].before = Saved(e).views_count
        /\ ~increments[v].overwritten
        /\ articles[Saved(e).id].views_count = Saved(e).views_count + 1

=============================================================================
